---- MODULE Spec2Model ----
(***************************************************************************)
(* The motor safety monitor (lerobot/motors/motor_safety.py) and the goal  *)
(* move of the collision safety system (lerobot/motors/                    *)
(* collision_detection.py) as state machines.                              *)
(*                                                                         *)
(* Temperatures are whole degrees Celsius, currents whole mA. Time is a    *)
(* discrete clock of 0.1 s units, so current_stall_duration (0.5 s) is 5.  *)
(* Normalized positions are in units of 0.01, loads in thousandths.        *)
(* `events` holds what the last step did to the outside world, in program  *)
(* order: bus calls, callback invocations, violation records, log lines.   *)
(***************************************************************************)
EXTENDS Integers, Sequences, FiniteSets, TLC

\* ---------------------------------------------------------------- bounds
MaxTime == 5
MaxMoveTime == 49
MaxRetryCount == 4
MaxDetectTime == 52
MaxSampleTime == 12
MaxLatency == 102
MaxSamples == 12
MaxViolations == 4
MaxEmergencyStops == 2
MaxSteps == 4
MaxJoinTime == 40
MaxPosition == 20
FloatBits == 4

\* ------------------------------------------------- SafetyThresholds
temperature_warning == 40
temperature_critical == 45
temperature_shutdown == 50
current_stall_threshold == 800
current_stall_duration == 5
current_spike_threshold == 1200
position_margin == 5
cooldown_temperature == 35

\* -------------------------------------------------- CollisionConfig
torque_threshold == 300
current_threshold == 900
collision_duration == 3
backoff_distance == 10
cooldown_period == 20
max_retries == 3
consecutive_collisions_for_recal == 5
time_since_last_calibration == 36000

\* None of an Optional[float] / of a callback argument
None == -1

\* ------------------------------------------------------------ the bus
\* bus.motors, in iteration order
Motors == <<"motor1", "motor2">>
MotorSet == {Motors[i] : i \in 1..Len(Motors)}

\* bus.calibration[motor].range_min / range_max
range_min == [m \in MotorSet |-> IF m = "motor1" THEN 0 ELSE -50]
range_max == [m \in MotorSet |-> IF m = "motor1" THEN 100 ELSE 50]

\* values the bus can return
Temperatures == {34, 35, 40, 45, 50}
Currents == {200, -800, 1200}
Positions == {44, 95}
TorqueLimits == {7, 1000}

\* SafetyStatus / SafetyViolationType values
NORMAL == "normal"
WARNING == "warning"
CRITICAL == "critical"
EMERGENCY_STOP == "emergency_stop"
TEMPERATURE_WARNING == "temperature_warning"
TEMPERATURE_CRITICAL == "temperature_critical"
CURRENT_STALL == "current_stall"

VARIABLES
    temperature,              \* state.temperature, per motor
    current,                  \* state.current, per motor
    position,                 \* state.position, per motor
    high_current_start_time,  \* state.high_current_start_time, per motor
    is_stalled,               \* state.is_stalled, per motor
    violations,               \* state.violations, per motor (the types)
    status,                   \* self.status
    emergency_stop_active,    \* self.emergency_stop_active
    monitoring_active,        \* self.monitoring_active
    stop_event,               \* self._stop_event
    stats,                    \* self.stats
    callerPc,                 \* where the caller of the monitor is
    pollPc,                   \* where the polling thread is
    new_status,               \* the status _update_global_status has decided on, or ""
    pollIdx,                  \* index into Motors of the motor checked next
    torque_enabled,           \* the bus: Torque_Enable, per motor
    now,                      \* time.time()
    events,                   \* what the last step did, in order
    collision_state,          \* collision_detector.collision_state, per motor
    collision_history,        \* collision_detector.collision_history (the positions)
    total_collisions,         \* collision_detector.total_collisions
    last_calibration_time,    \* collision_detector.last_calibration_time
    backoff_positions,        \* collision_detector.backoff_positions
    goal_positions,           \* the goal move's argument, in iteration order
    timeout,                  \* the goal move's argument
    start_time,               \* the goal move's start_time
    active_movements,         \* self.active_movements
    movements_complete,       \* the goal move's movements_complete
    held,                     \* current_pos and action of the motor being handled
    result,                   \* the goal move's result
    movePc,                   \* where the goal move is
    moveIdx,                  \* index into goal_positions of the motor handled next
    resisted,                 \* history: a motor showed resistance during this goal move
    recalibration_callback,   \* collision_detector.recalibration_callback is set
    detect_call,              \* the last detect_collision call of a caller, and its return
    smoothness_history,       \* metrics.smoothness_history
    latency_history,          \* metrics.latency_history
    optimal_frequency,        \* metrics.optimal_frequency, in 0.1 Hz
    last_positions,           \* collision_detector.last_positions
    position_jitter,          \* metrics.position_jitter
    temperature_history,      \* state.temperature_history, per motor
    soft_start_steps,         \* thresholds.soft_start_steps
    soft_start_active,        \* state.soft_start_active, per motor
    soft_start,               \* the last apply_soft_start call, and its return
    oldPc,                    \* where the polling thread of an earlier start is
    oldIdx,                   \* its index into Motors
    old_status                \* the status it has decided on, or ""

motorVars == <<temperature, current, position, high_current_start_time, is_stalled,
               violations>>
monitorVars == <<motorVars, status, emergency_stop_active, monitoring_active,
                 stop_event, stats>>
detectorVars == <<collision_state, collision_history, total_collisions, last_calibration_time,
                  backoff_positions>>
goalVars == <<goal_positions, timeout, start_time, active_movements, movements_complete,
              held, result, movePc, moveIdx, resisted>>
moveVars == <<detectorVars, goalVars>>
metricVars == <<smoothness_history, latency_history, optimal_frequency, last_positions,
                position_jitter>>
softVars == <<soft_start_steps, soft_start_active, soft_start>>
oldVars == <<oldPc, oldIdx, old_status>>
directVars == <<recalibration_callback, detect_call, metricVars, softVars, oldVars,
                temperature_history>>
vars == <<monitorVars, callerPc, new_status, pollPc, pollIdx, torque_enabled, now, events,
         moveVars, directVars>>

Ev(op, motor, key, value) == [op |-> op, motor |-> motor, key |-> key, value |-> value]

Abs(x) == IF x < 0 THEN -x ELSE x

\* int(current_torque * reduction), reduction given in percent
ScaleTorque(current_torque, pct) == (current_torque * pct) \div 100

\* _reduce_motor_torque: the bus calls it makes; tl is the value the bus returns
\* for Torque_Limit, ok is FALSE when the read raises (the exception is logged)
ReduceMotorTorque(m, pct, tl, ok) ==
    IF ok
    THEN <<Ev("read", m, "Torque_Limit", tl),
           Ev("write", m, "Torque_Limit", ScaleTorque(tl, pct))>>
    ELSE <<Ev("read_error", m, "Torque_Limit", None)>>

\* the register after _reduce_motor_torque
ReducedLimit(pct, tl, ok) == IF ok THEN ScaleTorque(tl, pct) ELSE tl

\* _record_violation: the statistics after recording violations of these types
RecordViolation(st, types) ==
    LET temps == Len(SelectSeq(types, LAMBDA v : v \in {TEMPERATURE_WARNING, TEMPERATURE_CRITICAL}))
        stalls == Len(SelectSeq(types, LAMBDA v : v = CURRENT_STALL))
    IN [st EXCEPT !.total_violations = @ + Len(types),
                  !.temperature_warnings = @ + temps,
                  !.current_stalls = @ + stalls]

\* _handle_temperature_critical: shut the motor down
HandleTemperatureCritical(m, temp) ==
    [viols |-> <<TEMPERATURE_CRITICAL>>,
     events |-> <<Ev("violation", m, TEMPERATURE_CRITICAL, temp),
                  Ev("disable_torque", m, "Torque_Enable", 0),
                  Ev("callback", m, "temperature_shutdown", temp)>>,
     disabled |-> TRUE]

\* _handle_temperature_warning
HandleTemperatureWarning(m, temp, is_critical, tl, ok) ==
    LET violation_type == IF is_critical THEN TEMPERATURE_CRITICAL ELSE TEMPERATURE_WARNING
    IN [viols |-> <<violation_type>>,
        events |-> <<Ev("violation", m, violation_type, temp)>>
                   \o (IF is_critical THEN ReduceMotorTorque(m, 50, tl, ok) ELSE <<>>),
        disabled |-> FALSE]

NoAction == [viols |-> <<>>, events |-> <<>>, disabled |-> FALSE]

\* _check_temperature comparing with > where the code compares with >=
CheckTemperature_Strict(m, temp, tl, ok) ==
    IF temp > temperature_shutdown THEN HandleTemperatureCritical(m, temp)
    ELSE IF temp > temperature_critical THEN HandleTemperatureWarning(m, temp, TRUE, tl, ok)
    ELSE IF temp > temperature_warning THEN HandleTemperatureWarning(m, temp, FALSE, tl, ok)
    ELSE NoAction

\* _check_temperature, the threshold part
CheckTemperature(m, temp, tl, ok) ==
    IF temp >= temperature_shutdown THEN HandleTemperatureCritical(m, temp)
    ELSE IF temp >= temperature_critical THEN HandleTemperatureWarning(m, temp, TRUE, tl, ok)
    ELSE IF temp >= temperature_warning THEN HandleTemperatureWarning(m, temp, FALSE, tl, ok)
    ELSE NoAction

\* the Torque_Limit register after _check_temperature
LimitAfterTemperature(temp, tl, ok) ==
    IF temp >= temperature_critical /\ temp < temperature_shutdown
    THEN ReducedLimit(50, tl, ok) ELSE tl

\* _handle_current_spike
HandleCurrentSpike(m, cur, tl, ok) ==
    [viols |-> <<>>, events |-> ReduceMotorTorque(m, 30, tl, ok), disabled |-> FALSE]

\* _handle_stall_detected
HandleStallDetected(m, cur) ==
    [viols |-> <<CURRENT_STALL>>,
     events |-> <<Ev("violation", m, CURRENT_STALL, cur),
                  Ev("disable_torque", m, "Torque_Enable", 0),
                  Ev("callback", m, "stall_detected", cur)>>,
     disabled |-> TRUE]

\* _check_current_stall with a spike that starts the stall detection afresh
CheckCurrentStall_SpikeResets(m, cur, start, stalled, t, tl, ok) ==
    IF cur >= current_spike_threshold
    THEN [start |-> None, stalled |-> FALSE, act |-> HandleCurrentSpike(m, cur, tl, ok)]
    ELSE IF cur >= current_stall_threshold
    THEN IF start = None
         THEN [start |-> t, stalled |-> stalled, act |-> NoAction]
         ELSE IF t - start >= current_stall_duration
              THEN [start |-> start, stalled |-> TRUE, act |-> HandleStallDetected(m, cur)]
              ELSE [start |-> start, stalled |-> stalled, act |-> NoAction]
    ELSE [start |-> None, stalled |-> FALSE, act |-> NoAction]

\* _check_current_stall asking for more than current_stall_duration
CheckCurrentStall_Late(m, cur, start, stalled, t, tl, ok) ==
    IF cur >= current_spike_threshold
    THEN [start |-> start, stalled |-> stalled, act |-> HandleCurrentSpike(m, cur, tl, ok)]
    ELSE IF cur >= current_stall_threshold
    THEN IF start = None
         THEN [start |-> t, stalled |-> stalled, act |-> NoAction]
         ELSE IF t - start > current_stall_duration
              THEN [start |-> start, stalled |-> TRUE, act |-> HandleStallDetected(m, cur)]
              ELSE [start |-> start, stalled |-> stalled, act |-> NoAction]
    ELSE [start |-> None, stalled |-> FALSE, act |-> NoAction]

\* _check_current_stall: start is state.high_current_start_time, stalled is
\* state.is_stalled, t is time.time()
CheckCurrentStall(m, cur, start, stalled, t, tl, ok) ==
    IF cur >= current_spike_threshold
    THEN [start |-> start, stalled |-> stalled, act |-> HandleCurrentSpike(m, cur, tl, ok)]
    ELSE IF cur >= current_stall_threshold
    THEN IF start = None
         THEN [start |-> t, stalled |-> stalled, act |-> NoAction]
         ELSE IF t - start >= current_stall_duration
              THEN [start |-> start, stalled |-> TRUE, act |-> HandleStallDetected(m, cur)]
              ELSE [start |-> start, stalled |-> stalled, act |-> NoAction]
    ELSE [start |-> None, stalled |-> FALSE, act |-> NoAction]

\* whether bus.calibration has an entry for the motor
InCalibration(m) == m = Motors[2]

\* _check_position_limits looking the motor up without the test of line 272
CheckPositionLimits_Unguarded(m, pos) ==
    IF pos <= range_min[m] + position_margin \/ pos >= range_max[m] - position_margin
    THEN <<Ev("write", m, "Goal_Velocity", 50)>>
    ELSE <<>>

\* _check_position_limits and _handle_position_limit_warning
CheckPositionLimits(m, pos) ==
    IF ~InCalibration(m) THEN <<>>
    ELSE IF pos <= range_min[m] + position_margin \/ pos >= range_max[m] - position_margin
    THEN <<Ev("write", m, "Goal_Velocity", 50)>>
    ELSE <<>>

\* _update_global_status: the status it assigns
GlobalStatus(temps, stalled, emergency) ==
    LET has_critical == \E m \in MotorSet : stalled[m] \/ temps[m] >= temperature_critical
        has_warning == \E m \in MotorSet :
                          /\ ~(stalled[m] \/ temps[m] >= temperature_critical)
                          /\ temps[m] >= temperature_warning
    IN IF emergency THEN EMERGENCY_STOP
       ELSE IF has_critical THEN CRITICAL
       ELSE IF has_warning THEN WARNING
       ELSE NORMAL

\* ------------------------------------------------------- the initial state
\* MotorSafetyMonitor.__init__ (and MotorSafetyState's defaults), torque on
MonitorInit ==
    /\ temperature = [m \in MotorSet |-> 0]
    /\ current = [m \in MotorSet |-> 0]
    /\ position = [m \in MotorSet |-> 0]
    /\ high_current_start_time = [m \in MotorSet |-> None]
    /\ is_stalled = [m \in MotorSet |-> FALSE]
    /\ violations = [m \in MotorSet |-> <<>>]
    /\ status = NORMAL
    /\ emergency_stop_active = FALSE
    /\ monitoring_active = FALSE
    /\ stop_event = FALSE
    /\ stats = [total_violations |-> 0, temperature_warnings |-> 0,
                current_stalls |-> 0, emergency_stops |-> 0]
    /\ callerPc = "idle"
    /\ pollPc = "off"
    /\ new_status = ""
    /\ pollIdx = 1
    /\ torque_enabled = [m \in MotorSet |-> TRUE]
    /\ now = 0
    /\ events = <<>>

\* ------------------------------------------------------ caller operations
\* start_monitoring(); the thread of an earlier stop_monitoring() has been joined
\* start_monitoring() without the test of monitoring_active
StartMonitoring_Unchecked ==
    /\ callerPc = "idle"
    /\ monitoring_active' = TRUE
    /\ stop_event' = FALSE
    /\ pollPc' = "loop"
    /\ events' = <<Ev("log", "", "Motor safety monitoring started", None)>>
    /\ UNCHANGED <<moveVars, callerPc, new_status, motorVars, status,
                   emergency_stop_active, stats, pollIdx, torque_enabled, now, directVars>>

\* start_monitoring()
StartMonitoring ==
    /\ callerPc = "idle"
    /\ IF monitoring_active
       THEN /\ events' = <<Ev("log", "", "Safety monitoring already active", None)>>
            /\ UNCHANGED <<moveVars, callerPc, new_status, monitorVars, pollPc, pollIdx,
                           torque_enabled, now, directVars>>
       ELSE /\ pollPc = "off"
            /\ monitoring_active' = TRUE
            /\ stop_event' = FALSE
            /\ pollPc' = "loop"
            /\ events' = <<Ev("log", "", "Motor safety monitoring started", None)>>
            /\ UNCHANGED <<moveVars, callerPc, new_status, motorVars, status,
                           emergency_stop_active, stats, pollIdx, torque_enabled, now,
                           directVars>>

\* stop_monitoring(): signals the thread, which leaves at its next loop test
StopMonitoring ==
    /\ callerPc = "idle"
    /\ IF ~monitoring_active
       THEN /\ events' = <<>>
            /\ UNCHANGED <<moveVars, callerPc, new_status, monitorVars, pollPc, pollIdx,
                           torque_enabled, now, directVars>>
       ELSE /\ monitoring_active' = FALSE
            /\ stop_event' = TRUE
            /\ events' = <<Ev("log", "", "Motor safety monitoring stopped", None)>>
            /\ UNCHANGED <<moveVars, callerPc, new_status, motorVars, status,
                           emergency_stop_active, stats, pollPc, pollIdx, torque_enabled,
                           now, directVars>>

\* emergency_stop(), its first statements: the log line, the flag and the status
EmergencyStop ==
    /\ callerPc = "idle"
    /\ stats.emergency_stops < MaxEmergencyStops
    /\ emergency_stop_active' = TRUE
    /\ status' = EMERGENCY_STOP
    /\ callerPc' = "emergency_stop"
    /\ events' = <<Ev("log", "", "EMERGENCY STOP ACTIVATED", None)>>
    /\ UNCHANGED <<moveVars, new_status, motorVars, monitoring_active, stop_event, stats,
                   pollPc, pollIdx, torque_enabled, now, directVars>>

\* emergency_stop(), the rest: disable_torque, the counter, the callback, return
EmergencyStopReturn ==
    /\ callerPc = "emergency_stop"
    /\ torque_enabled' = [m \in MotorSet |-> FALSE]
    /\ stats' = [stats EXCEPT !.emergency_stops = @ + 1]
    /\ callerPc' = "idle"
    /\ events' = <<Ev("disable_torque", "", "Torque_Enable", 0),
                   Ev("callback", "", "emergency_stop", None)>>
    /\ UNCHANGED <<moveVars, new_status, motorVars, status, emergency_stop_active,
                   monitoring_active, stop_event, pollPc, pollIdx, now, directVars>>

\* the all(...) of reset_emergency_stop
AllTempsSafe == \A m \in MotorSet : temperature[m] < cooldown_temperature

\* reset_emergency_stop() without the temperature check
ResetEmergencyStop_Unchecked ==
    /\ callerPc = "idle"
    /\ IF ~emergency_stop_active
       THEN /\ events' = <<>>
            /\ UNCHANGED <<moveVars, callerPc, new_status, monitorVars, pollPc, pollIdx,
                           torque_enabled, now, directVars>>
       ELSE /\ emergency_stop_active' = FALSE
            /\ events' = <<Ev("log", "", "Emergency stop reset", None)>>
            /\ UNCHANGED <<moveVars, callerPc, new_status, motorVars, status,
                           monitoring_active, stop_event, stats, pollPc, pollIdx,
                           torque_enabled, now, directVars>>

\* reset_emergency_stop()
ResetEmergencyStop ==
    /\ callerPc = "idle"
    /\ IF ~emergency_stop_active
       THEN /\ events' = <<>>
            /\ UNCHANGED <<moveVars, callerPc, new_status, monitorVars, pollPc, pollIdx,
                           torque_enabled, now, directVars>>
       ELSE IF ~AllTempsSafe
       THEN /\ events' = <<Ev("log", "", "Cannot reset emergency stop", None)>>
            /\ UNCHANGED <<moveVars, callerPc, new_status, monitorVars, pollPc, pollIdx,
                           torque_enabled, now, directVars>>
       ELSE /\ emergency_stop_active' = FALSE
            /\ events' = <<Ev("log", "", "Emergency stop reset", None)>>
            /\ UNCHANGED <<moveVars, callerPc, new_status, motorVars, status,
                           monitoring_active, stop_event, stats, pollPc, pollIdx,
                           torque_enabled, now, directVars>>

\* ------------------------------------------------------ the polling thread
\* _monitor_loop: the loop test finds the stop event set
PollExit ==
    /\ pollPc = "loop"
    /\ stop_event
    /\ pollPc' = "off"
    /\ events' = <<>>
    /\ UNCHANGED <<moveVars, callerPc, new_status, monitorVars, pollIdx, torque_enabled,
                   now, directVars>>

\* a loop that starts its cycle without looking at the stop event
PollRead_Unstopped ==
    /\ pollPc = "loop"
    /\ pollPc' = "motors"
    /\ pollIdx' = 1
    /\ events' = <<>>
    /\ UNCHANGED <<moveVars, callerPc, new_status, monitorVars, torque_enabled, now,
                   directVars>>

\* _perform_safety_checks, the three sync_read calls, all returning
PollRead ==
    /\ pollPc = "loop"
    /\ ~stop_event
    /\ pollPc' = "motors"
    /\ pollIdx' = 1
    /\ events' = <<>>
    /\ UNCHANGED <<moveVars, callerPc, new_status, monitorVars, torque_enabled, now,
                   directVars>>

\* a sync_read that raises and ends the thread
PollReadError_Fatal ==
    /\ pollPc = "loop"
    /\ ~stop_event
    /\ \E key \in {"Present_Temperature", "Present_Current", "Present_Position"} :
          events' = <<Ev("sync_read_error", "", key, None)>>
    /\ pollPc' = "off"
    /\ UNCHANGED <<moveVars, callerPc, new_status, monitorVars, pollIdx, torque_enabled,
                   now, directVars>>

\* _perform_safety_checks with a sync_read that raises: _monitor_loop logs it
PollReadError ==
    /\ pollPc = "loop"
    /\ ~stop_event
    /\ \E key \in {"Present_Temperature", "Present_Current", "Present_Position"} :
          events' = <<Ev("sync_read_error", "", key, None),
                      Ev("log", "", "Error in safety monitor loop", None)>>
    /\ pollPc' = "loop"
    /\ UNCHANGED <<moveVars, callerPc, new_status, monitorVars, pollIdx, torque_enabled,
                   now, directVars>>

\* _perform_safety_checks, the loop body for one motor: temp, cur and pos are what
\* the batch reads returned for it
CheckMotor(m, temp, cur, pos, tl, ok) ==
    LET tempAct == CheckTemperature(m, temp, tl, ok)
        stall == CheckCurrentStall(m, Abs(cur), high_current_start_time[m], is_stalled[m],
                                   now, LimitAfterTemperature(temp, tl, ok), ok)
        types == tempAct.viols \o stall.act.viols
    IN /\ stats.total_violations + Len(types) <= MaxViolations
       /\ temperature' = [temperature EXCEPT ![m] = temp]
       /\ current' = [current EXCEPT ![m] = Abs(cur)]
       /\ position' = [position EXCEPT ![m] = pos]
       /\ high_current_start_time' = [high_current_start_time EXCEPT ![m] = stall.start]
       /\ is_stalled' = [is_stalled EXCEPT ![m] = stall.stalled]
       /\ violations' = [violations EXCEPT ![m] = @ \o types]
       /\ stats' = RecordViolation(stats, types)
       /\ torque_enabled' = IF tempAct.disabled \/ stall.act.disabled
                            THEN [torque_enabled EXCEPT ![m] = FALSE]
                            ELSE torque_enabled
       /\ events' = tempAct.events \o stall.act.events \o CheckPositionLimits(m, pos)

\* one pass of the loop over bus.motors, the bus returning values of these sets
PollMotorIn(Temps, Curs, Poss, Limits, Oks) ==
    /\ pollPc = "motors"
    /\ \E temp \in Temps[Motors[pollIdx]], cur \in Curs[Motors[pollIdx]],
          pos \in Poss, tl \in Limits, ok \in Oks :
          CheckMotor(Motors[pollIdx], temp, cur, pos, tl, ok)
    /\ IF pollIdx < Len(Motors)
       THEN pollIdx' = pollIdx + 1 /\ pollPc' = "motors"
       ELSE pollIdx' = 1 /\ pollPc' = "status"
    /\ UNCHANGED <<moveVars, callerPc, new_status, status, emergency_stop_active,
                   monitoring_active, stop_event, now, directVars>>

\* what the bus returns for each motor in the three environments below
CoolTemperature == [m \in MotorSet |-> {34, 35, 40}]
RisingTemperature == [m \in MotorSet |-> {t \in Temperatures : t >= temperature[m]}]
LoadedTemperature == [m \in MotorSet |-> IF m = Motors[1] THEN {34} ELSE {34, 40, 45}]
NominalCurrents == [m \in MotorSet |-> {200}]
LoadedCurrents == [m \in MotorSet |-> IF m = Motors[1] THEN Currents ELSE {200}]

\* the motors idle, at temperatures up to the warning band
PollMotorCool == PollMotorIn(CoolTemperature, NominalCurrents, {44}, {1000}, {TRUE})

\* the motors heat up
PollMotor == PollMotorIn(RisingTemperature, NominalCurrents, Positions, TorqueLimits, BOOLEAN)

\* the first motor is loaded, the second one warm
PollMotorLoaded == PollMotorIn(LoadedTemperature, LoadedCurrents, {44}, {1000}, {TRUE})

\* the motors cool, in mid-range or near the upper end
PollMotorNear == PollMotorIn([m \in MotorSet |-> {34}], NominalCurrents, Positions, {1000}, {TRUE})

\* _update_global_status up to the test of the emergency flag: the status it will
\* assign is decided
PollStatus ==
    /\ pollPc = "status"
    /\ new_status' = GlobalStatus(temperature, is_stalled, emergency_stop_active)
    /\ pollPc' = "write"
    /\ events' = <<>>
    /\ UNCHANGED <<moveVars, callerPc, monitorVars, pollIdx, torque_enabled, now,
                   directVars>>

\* _update_global_status, the assignment to self.status, which ends the cycle
PollStatusWrite ==
    /\ pollPc = "write"
    /\ status' = new_status
    /\ new_status' = ""
    /\ pollPc' = "loop"
    /\ events' = <<>>
    /\ UNCHANGED <<moveVars, callerPc, motorVars, emergency_stop_active, monitoring_active,
                   stop_event, stats, pollIdx, torque_enabled, now, directVars>>

\* time passes, by one of these steps
TickBy(Steps, Max) ==
    /\ \E d \in Steps : now + d <= Max /\ now' = now + d
    /\ UNCHANGED <<moveVars, callerPc, new_status, monitorVars, pollPc, pollIdx,
                   torque_enabled, events, directVars>>

\* between two looks at the clock of the polling thread
Tick == TickBy({2, 3}, MaxTime)

\* ------------------------------------------------------------ the goal move
\* an empty dictionary, and d[k] = v
EmptyMap == [x \in {} |-> None]
Put(f, k, v) == [x \in DOMAIN f \cup {k} |-> IF x = k THEN v ELSE f[x]]

\* np.sign, np.clip, and append on a deque(maxlen=cap)
Sign(x) == IF x > 0 THEN 1 ELSE IF x < 0 THEN -1 ELSE 0
Clip(x, lo, hi) == IF x < lo THEN lo ELSE IF x > hi THEN hi ELSE x
AppendCapped(s, x, cap) == IF Len(s) < cap THEN Append(s, x) ELSE Append(Tail(s), x)

\* one append on a deque(maxlen=cap) for each element of xs, in order
RECURSIVE ExtendCapped(_, _, _)
ExtendCapped(s, xs, cap) ==
    IF xs = <<>> THEN s ELSE ExtendCapped(AppendCapped(s, Head(xs), cap), Tail(xs), cap)

\* what detect_collision returns as its action; kind "None" is Python's None
Action(kind, backoff_position, retry_count, should_recalibrate, time_remaining) ==
    [action |-> kind, backoff_position |-> backoff_position, retry_count |-> retry_count,
     should_recalibrate |-> should_recalibrate, time_remaining |-> time_remaining]
NoneAction == Action("None", None, None, FALSE, None)

\* np.std(positions) < 0.02 for three positions: 9 * variance < 9 * 2 * 2
LowSpread(ps) ==
    LET sum == ps[1] + ps[2] + ps[3]
        squares == ps[1] * ps[1] + ps[2] * ps[2] + ps[3] * ps[3]
    IN 3 * squares - sum * sum < 36

\* the last three positions of a collision history cluster
Clustered(history) ==
    \E m \in MotorSet :
       /\ Len(history[m]) >= 3
       /\ LowSpread(SubSeq(history[m], Len(history[m]) - 2, Len(history[m])))

\* _should_recalibrate recommending only above the collision count
ShouldRecalibrate_Above(t, last_cal, total, history) ==
    \/ t - last_cal > time_since_last_calibration
    \/ total > consecutive_collisions_for_recal
    \/ Clustered(history)

\* _should_recalibrate
ShouldRecalibrate(t, last_cal, total, history) ==
    \/ t - last_cal > time_since_last_calibration
    \/ total >= consecutive_collisions_for_recal
    \/ Clustered(history)

\* whether bus.motors[motor] has range_min and range_max
DeclaresRange(m) == m = Motors[2]

\* detect_collision without the clamping
ClampToRange_Skipped(m, x) == x

\* detect_collision, the clamping of the backoff position
ClampToRange(m, x) == IF DeclaresRange(m) THEN Clip(x, range_min[m], range_max[m]) ELSE x

\* detect_collision aborting one collision late
RetriesExhausted_Late(retry_count) == retry_count > max_retries

\* detect_collision: the test that decides between abort and backoff
RetriesExhausted(retry_count) == retry_count >= max_retries

\* detect_collision without the cooldown test
InCooldown_Never(state, t) == FALSE

\* detect_collision: the cooldown test, state is collision_state[motor]
InCooldown(state, t) == t < state.cooldown_until

\* detect_collision resetting a backed off motor wherever it is
Recovered_Anywhere(state, position_error) == state.backed_off

\* detect_collision: the motor has moved on after a backoff
Recovered(state, position_error) == state.backed_off /\ position_error < 5

\* detect_collision confirming a collision at the first resisting sample
DurationReached_AtOnce(start, t) == TRUE

\* detect_collision: the resistance has lasted since start, t is time.time()
DurationReached(start, t) == t - start >= collision_duration

\* detect_collision: is_resisting
IsResisting(cur, pos, target, load) ==
    /\ cur > current_threshold \/ Abs(load) > torque_threshold
    /\ Abs(target - pos) > 2

\* detect_collision: state is collision_state[motor], t is time.time(); gives what
\* it returns and what it leaves in the detector
DetectCollision(state, total, history, last_cal, m, cur, pos, target, load, t) ==
    LET position_error == Abs(target - pos)
        is_resisting == IsResisting(cur, pos, target, load)
        start == IF state.detecting THEN state.collision_start ELSE t
        total1 == total + 1
        history1 == [history EXCEPT ![m] = AppendCapped(@, pos, 10)]
        recal == ShouldRecalibrate(t, last_cal, total1, history1)
        backoff_position == ClampToRange(m, pos + Sign(pos - target) * backoff_distance)
        confirmed == [state EXCEPT !.detecting = FALSE, !.collision_start = start,
                                   !.retry_count = @ + 1]
        cleared == IF state.detecting
                   THEN [state EXCEPT !.detecting = FALSE, !.collision_start = None]
                   ELSE state
    IN IF InCooldown(state, t)
       THEN [detected |-> FALSE,
             action |-> Action("cooldown", None, None, FALSE, state.cooldown_until - t),
             state |-> state, total |-> total, history |-> history]
       ELSE IF is_resisting
       THEN IF DurationReached(start, t)
            THEN IF RetriesExhausted(confirmed.retry_count)
                 THEN [detected |-> TRUE,
                       action |-> Action("abort", None, None, recal, None),
                       state |-> confirmed, total |-> total1, history |-> history1]
                 ELSE [detected |-> TRUE,
                       action |-> Action("backoff", backoff_position, confirmed.retry_count,
                                         recal, None),
                       state |-> [confirmed EXCEPT !.backed_off = TRUE,
                                                   !.cooldown_until = t + cooldown_period],
                       total |-> total1, history |-> history1]
            ELSE [detected |-> FALSE, action |-> NoneAction,
                  state |-> [state EXCEPT !.detecting = TRUE, !.collision_start = start],
                  total |-> total, history |-> history]
       ELSE [detected |-> FALSE, action |-> NoneAction,
             state |-> IF Recovered(cleared, position_error)
                       THEN [cleared EXCEPT !.backed_off = FALSE, !.retry_count = 0]
                       ELSE cleared,
             total |-> total, history |-> history]

\* detect_collision without line 200
StoreBackoff_Dropped(positions, m, action) == positions

\* detect_collision: backoff_positions after a call that returned this action; a
\* backoff stores the position it reports
StoreBackoff(positions, m, action) ==
    IF action.action = "backoff" THEN Put(positions, m, action.backoff_position)
    ELSE positions

\* the result dictionary a goal move starts with; error "" is no error key
InitialResult ==
    [success |-> FALSE, collisions |-> EmptyMap, final_positions |-> EmptyMap,
     recalibration_triggered |-> FALSE, error |-> ""]

NoHeld == [current_pos |-> None, action |-> NoneAction]

\* CollisionDetector.__init__ and SmartCollisionSafetySystem.__init__
MoveInit ==
    /\ collision_state = [m \in MotorSet |->
                            [detecting |-> FALSE, collision_start |-> None,
                             backed_off |-> FALSE, retry_count |-> 0, cooldown_until |-> 0]]
    /\ collision_history = [m \in MotorSet |-> <<>>]
    /\ total_collisions = 0
    /\ last_calibration_time = 0
    /\ backoff_positions = EmptyMap
    /\ goal_positions = <<>>
    /\ timeout = 0
    /\ start_time = 0
    /\ active_movements = EmptyMap
    /\ movements_complete = TRUE
    /\ held = NoHeld
    /\ result = InitialResult
    /\ movePc = "idle"
    /\ moveIdx = 1
    /\ resisted = FALSE

\* no detect_collision call made yet
NoCall ==
    [motor |-> "", current |-> None, position |-> None, target |-> None, load |-> None,
     detected |-> FALSE, action |-> NoneAction]

\* PerformanceMetrics(), in 0.1 Hz
monitoring_frequency == 20
initial_optimal_frequency == 20

\* the rest of CollisionDetector.__init__: the callback argument and the metrics
DirectInit(callbacks) ==
    /\ recalibration_callback \in callbacks
    /\ detect_call = NoCall
    /\ smoothness_history = <<>>
    /\ latency_history = <<>>
    /\ optimal_frequency = initial_optimal_frequency
    /\ last_positions = EmptyMap
    /\ position_jitter = <<>>
    /\ temperature_history = [m \in MotorSet |-> <<>>]

\* no apply_soft_start call made yet
NoSoftStart == [motor |-> "", target |-> None, current |-> None, positions |-> <<>>]

\* SafetyThresholds.soft_start_steps
default_soft_start_steps == 10

\* the soft start part of MotorSafetyMonitor.__init__, soft_start_steps one of these
SoftStartInit(Steps) ==
    /\ soft_start_steps \in Steps
    /\ soft_start_active = [m \in MotorSet |-> FALSE]
    /\ soft_start = NoSoftStart

\* no polling thread of an earlier start_monitoring() is left
OldInit ==
    /\ oldPc = "off"
    /\ oldIdx = 1
    /\ old_status = ""

\* the monitor, and the detector as SmartCollisionSafetySystem constructs it
Init ==
    /\ MonitorInit /\ MoveInit /\ DirectInit({TRUE})
    /\ SoftStartInit({default_soft_start_steps}) /\ OldInit

\* the goal moves a caller asks for: goal_positions in iteration order, and timeout
Goal(m, target) == [motor |-> m, target |-> target]
GoalChoices == {<<Goal(Motors[1], 50)>>, <<Goal(Motors[1], 50), Goal(Motors[2], 0)>>}
Timeouts == {6}

\* safe_move_with_collision_detection up to its loop
SafeMoveStart ==
    /\ movePc = "idle"
    /\ \E goals \in GoalChoices, tmo \in Timeouts :
          /\ goal_positions' = goals
          /\ timeout' = tmo
          /\ active_movements' =
                [m \in {goals[i].motor : i \in 1..Len(goals)} |->
                    [backed_off |-> FALSE, abort |-> FALSE]]
    /\ start_time' = now
    /\ result' = InitialResult
    /\ resisted' = FALSE
    /\ movePc' = "loop"
    /\ events' = <<>>
    /\ UNCHANGED <<monitorVars, callerPc, new_status, pollPc, pollIdx, torque_enabled, now,
                   detectorVars, movements_complete, held, moveIdx, directVars>>

\* safe_move_with_collision_detection returns res: the finally clause, and the
\* locals are gone
Return(res) ==
    /\ result' = res
    /\ active_movements' = EmptyMap
    /\ goal_positions' = <<>>
    /\ timeout' = 0
    /\ start_time' = 0
    /\ movements_complete' = TRUE
    /\ held' = NoHeld
    /\ moveIdx' = 1
    /\ movePc' = "idle"

\* an except clause that lets the exception through: no error key
Raise_Uncaught(res, message) == Return(res)

\* the except clause of safe_move_with_collision_detection
Raise(res, message) == Return([res EXCEPT !.error = message])

\* the read of the final positions after the loop, which may raise
FinalRead(res, Poss) ==
    \/ /\ \E final \in [MotorSet -> Poss] : Return([res EXCEPT !.final_positions = final])
       /\ events' = <<>>
    \/ /\ Raise(res, "sync_read")
       /\ events' = <<Ev("sync_read_error", "", "Present_Position", None)>>

\* the loop test passes and the three sync_read calls return
SafeMoveRead ==
    /\ movePc = "loop"
    /\ now - start_time < timeout
    /\ movePc' = "motors"
    /\ moveIdx' = 1
    /\ movements_complete' = TRUE
    /\ events' = <<>>
    /\ UNCHANGED resisted
    /\ UNCHANGED <<monitorVars, callerPc, new_status, pollPc, pollIdx, torque_enabled, now,
                   detectorVars, goal_positions, timeout, start_time, active_movements,
                   held, result, directVars>>

\* the loop test passes and a sync_read raises
SafeMoveReadError ==
    /\ movePc = "loop"
    /\ now - start_time < timeout
    /\ Raise(result, "sync_read")
    /\ UNCHANGED resisted
    /\ \E key \in {"Present_Position", "Present_Current", "Present_Load"} :
          events' = <<Ev("sync_read_error", "", key, None)>>
    /\ UNCHANGED <<monitorVars, callerPc, new_status, pollPc, pollIdx, torque_enabled, now,
                   detectorVars, directVars>>

\* the loop test fails: timeout has elapsed
SafeMoveTimeoutIn(Poss) ==
    /\ movePc = "loop"
    /\ ~(now - start_time < timeout)
    /\ FinalRead(result, Poss)
    /\ UNCHANGED resisted
    /\ UNCHANGED <<monitorVars, callerPc, new_status, pollPc, pollIdx, torque_enabled, now,
                   detectorVars, directVars>>

\* the at-target check that ends the loop body for one motor, then on to the next
\* motor or to the end of the iteration; am and res are active_movements and result
\* as the lines before it left them
AfterMotor(m, target, pos, action, am, res) ==
    IF ~am[m].abort /\ am[m].backed_off /\ action.action # "backoff"
    THEN Raise(res, "backoff_position")
    ELSE LET target_pos == IF am[m].backed_off THEN action.backoff_position ELSE target
             far == ~am[m].abort /\ Abs(pos - target_pos) > 2
         IN /\ movements_complete' = (movements_complete /\ ~far)
            /\ active_movements' = am
            /\ result' = res
            /\ held' = NoHeld
            /\ IF moveIdx < Len(goal_positions)
               THEN moveIdx' = moveIdx + 1 /\ movePc' = "motors"
               ELSE moveIdx' = 1 /\ movePc' = "end"
            /\ UNCHANGED <<goal_positions, timeout, start_time>>

\* the loop body for one motor whose movement is not aborted; pos, cur and load are
\* what the reads returned for it. The write of a backoff position may raise. A
\* recalibration stops at its input()
MoveMotor(m, target, pos, cur, load) ==
    LET d == DetectCollision(collision_state[m], total_collisions, collision_history,
                             last_calibration_time, m, cur, pos, target, load, now)
        backoff == d.detected /\ d.action.action = "backoff"
        abort == d.detected /\ d.action.action = "abort"
        res == IF d.detected THEN [result EXCEPT !.collisions = Put(@, m, d.action)] ELSE result
        am == IF backoff THEN [active_movements EXCEPT ![m].backed_off = TRUE]
              ELSE IF abort THEN [active_movements EXCEPT ![m].abort = TRUE]
              ELSE active_movements
        write == IF backoff
                 THEN <<Ev("write", m, "Goal_Position", d.action.backoff_position)>>
                 ELSE <<>>
    IN /\ collision_state' = [collision_state EXCEPT ![m] = d.state]
       /\ backoff_positions' = StoreBackoff(backoff_positions, m, d.action)
       /\ resisted' = (resisted \/ IsResisting(cur, pos, target, load))
       /\ \/ /\ backoff
             /\ total_collisions' = d.total
             /\ collision_history' = d.history
             /\ UNCHANGED <<last_calibration_time, torque_enabled>>
             /\ events' = <<Ev("write_error", m, "Goal_Position", d.action.backoff_position)>>
             /\ Raise(res, "write")
          \/ IF d.detected /\ d.action.should_recalibrate
             THEN /\ total_collisions' = 0
                  /\ collision_history' = [x \in MotorSet |-> <<>>]
                  /\ last_calibration_time' = now
                  /\ torque_enabled' = [x \in MotorSet |-> FALSE]
                  /\ events' = write \o <<Ev("disable_torque", "", "Torque_Enable", 0)>>
                  /\ result' = [res EXCEPT !.recalibration_triggered = TRUE]
                  /\ active_movements' = am
                  /\ held' = [current_pos |-> pos, action |-> d.action]
                  /\ movePc' = "input"
                  /\ UNCHANGED <<goal_positions, timeout, start_time, movements_complete,
                                 moveIdx>>
             ELSE /\ total_collisions' = d.total
                  /\ collision_history' = d.history
                  /\ UNCHANGED <<last_calibration_time, torque_enabled>>
                  /\ events' = write
                  /\ AfterMotor(m, target, pos, d.action, am, res)

\* the loop over goal_positions without its `continue`: an aborted motor is handled
\* like any other
SafeMoveMotorIn_NoSkip(Poss, Curs, Loads) ==
    /\ movePc = "motors"
    /\ \E pos \in Poss[goal_positions[moveIdx].motor],
          cur \in Curs[goal_positions[moveIdx].motor], load \in Loads :
          MoveMotor(goal_positions[moveIdx].motor, goal_positions[moveIdx].target,
                    pos, cur, load)
    /\ UNCHANGED <<monitorVars, callerPc, new_status, pollPc, pollIdx, now, directVars>>

\* one pass of the loop over goal_positions, the bus having returned values of
\* these sets
SafeMoveMotorIn(Poss, Curs, Loads) ==
    /\ movePc = "motors"
    /\ LET m == goal_positions[moveIdx].motor
           target == goal_positions[moveIdx].target
       IN IF active_movements[m].abort
          THEN /\ AfterMotor(m, target, None, NoneAction, active_movements, result)
               /\ events' = <<>>
               /\ UNCHANGED <<detectorVars, torque_enabled, resisted>>
          ELSE \E pos \in Poss[m], cur \in Curs[m], load \in Loads :
                  MoveMotor(m, target, pos, cur, load)
    /\ UNCHANGED <<monitorVars, callerPc, new_status, pollPc, pollIdx, now, directVars>>

\* a recalibration that enables torque whether robot.calibrate() has raised or not
RecalibrationConfirmed_EnableAlways ==
    /\ movePc = "input"
    /\ \/ events' = <<Ev("calibrate", "", "robot", None),
                      Ev("enable_torque", "", "Torque_Enable", 1)>>
       \/ events' = <<Ev("calibrate_error", "", "robot", None),
                      Ev("log", "", "Auto-recalibration failed", None),
                      Ev("enable_torque", "", "Torque_Enable", 1)>>
    /\ torque_enabled' = [m \in MotorSet |-> TRUE]
    /\ AfterMotor(goal_positions[moveIdx].motor, goal_positions[moveIdx].target,
                  held.current_pos, held.action, active_movements, result)
    /\ UNCHANGED resisted
    /\ UNCHANGED <<monitorVars, callerPc, new_status, pollPc, pollIdx, now, detectorVars,
                   directVars>>

\* _trigger_recalibration from the return of input() on: robot.calibrate(), which
\* may raise, and enable_torque(); then the rest of the loop body
RecalibrationConfirmed ==
    /\ movePc = "input"
    /\ \/ /\ events' = <<Ev("calibrate", "", "robot", None),
                         Ev("enable_torque", "", "Torque_Enable", 1)>>
          /\ torque_enabled' = [m \in MotorSet |-> TRUE]
       \/ /\ events' = <<Ev("calibrate_error", "", "robot", None),
                         Ev("log", "", "Auto-recalibration failed", None)>>
          /\ UNCHANGED torque_enabled
    /\ AfterMotor(goal_positions[moveIdx].motor, goal_positions[moveIdx].target,
                  held.current_pos, held.action, active_movements, result)
    /\ UNCHANGED resisted
    /\ UNCHANGED <<monitorVars, callerPc, new_status, pollPc, pollIdx, now, detectorVars,
                   directVars>>

\* the first k motors of the bus, the ones a call over all motors has reached when
\* it raises at the next
FirstMotors(k) == {Motors[i] : i \in 1..k}

\* _trigger_recalibration from the return of input() on, with input() raising (an
\* EOFError on a closed stdin) or enable_torque() raising at some motor after
\* robot.calibrate() has returned: logged, then the rest of the loop body
RecalibrationRaises ==
    /\ movePc = "input"
    /\ \/ /\ events' = <<Ev("input_error", "", "stdin", None),
                         Ev("log", "", "Auto-recalibration failed", None)>>
          /\ UNCHANGED torque_enabled
       \/ /\ events' = <<Ev("calibrate", "", "robot", None),
                         Ev("enable_torque_error", "", "Torque_Enable", 1),
                         Ev("log", "", "Auto-recalibration failed", None)>>
          /\ \E k \in 0..(Len(Motors) - 1) :
                torque_enabled' =
                    [m \in MotorSet |-> torque_enabled[m] \/ m \in FirstMotors(k)]
    /\ AfterMotor(goal_positions[moveIdx].motor, goal_positions[moveIdx].target,
                  held.current_pos, held.action, active_movements, result)
    /\ UNCHANGED resisted
    /\ UNCHANGED <<monitorVars, callerPc, new_status, pollPc, pollIdx, now, detectorVars,
                   directVars>>

\* the loop body for one motor whose collision asks for a recalibration, with
\* bus.disable_torque() raising at some motor: _trigger_recalibration logs it and
\* returns, without prompt and without calibration
SafeMoveMotorTorqueRaisesIn(Poss, Curs, Loads) ==
    /\ movePc = "motors"
    /\ ~active_movements[goal_positions[moveIdx].motor].abort
    /\ LET m == goal_positions[moveIdx].motor
           target == goal_positions[moveIdx].target
       IN \E pos \in Poss[m], cur \in Curs[m], load \in Loads :
          LET d == DetectCollision(collision_state[m], total_collisions,
                                   collision_history, last_calibration_time, m, cur,
                                   pos, target, load, now)
              backoff == d.action.action = "backoff"
              res == [result EXCEPT !.collisions = Put(@, m, d.action),
                                    !.recalibration_triggered = TRUE]
              am == IF backoff THEN [active_movements EXCEPT ![m].backed_off = TRUE]
                    ELSE [active_movements EXCEPT ![m].abort = TRUE]
              write == IF backoff
                       THEN <<Ev("write", m, "Goal_Position", d.action.backoff_position)>>
                       ELSE <<>>
          IN /\ d.detected
             /\ d.action.should_recalibrate
             /\ collision_state' = [collision_state EXCEPT ![m] = d.state]
             /\ backoff_positions' = StoreBackoff(backoff_positions, m, d.action)
             /\ resisted' = (resisted \/ IsResisting(cur, pos, target, load))
             /\ total_collisions' = 0
             /\ collision_history' = [x \in MotorSet |-> <<>>]
             /\ last_calibration_time' = now
             /\ \E k \in 0..(Len(Motors) - 1) :
                   torque_enabled' =
                       [x \in MotorSet |-> torque_enabled[x] /\ x \notin FirstMotors(k)]
             /\ events' = write \o <<Ev("disable_torque_error", "", "Torque_Enable", 0),
                                      Ev("log", "", "Auto-recalibration failed", None)>>
             /\ AfterMotor(m, target, pos, d.action, am, res)
    /\ UNCHANGED <<monitorVars, callerPc, new_status, pollPc, pollIdx, now, directVars>>

\* the end of an iteration: success and out of the loop, or sleep and loop again
SafeMoveIterationEndIn(Poss) ==
    /\ movePc = "end"
    /\ UNCHANGED resisted
    /\ IF movements_complete
       THEN FinalRead([result EXCEPT !.success = TRUE], Poss)
       ELSE /\ movePc' = "loop"
            /\ events' = <<>>
            /\ UNCHANGED <<goal_positions, timeout, start_time, active_movements,
                           movements_complete, held, result, moveIdx>>
    /\ UNCHANGED <<monitorVars, callerPc, new_status, pollPc, pollIdx, torque_enabled, now,
                   detectorVars, directVars>>

\* what the bus returns during a goal move: the first motor short of its goal or on
\* it, free or held back; the second motor on its goal or short of it, free
MovePosition == [m \in MotorSet |-> IF m = Motors[1] THEN {30, 50} ELSE {0, 20}]
MoveCurrent == [m \in MotorSet |-> IF m = Motors[1] THEN {200, 1000} ELSE {200}]
SafeMoveMotor == SafeMoveMotorIn(MovePosition, MoveCurrent, {0})
SafeMoveTimeout == SafeMoveTimeoutIn({50})
SafeMoveIterationEnd == SafeMoveIterationEndIn({50})

\* time passes while the goal move sleeps, waits for the operator or is not running
MoveTick == movePc \in {"idle", "loop", "input"} /\ TickBy({3, 20}, MaxMoveTime)

\* what the bus returns while both motors are held back short of their goals
HeldPosition == [m \in MotorSet |-> IF m = Motors[1] THEN {30} ELSE {20}]
HeldCurrent == [m \in MotorSet |-> {1000}]
SafeMoveMotorHeld == SafeMoveMotorIn(HeldPosition, HeldCurrent, {0})

\* the operator leaves the recalibration prompt unanswered for longer than
\* time_since_last_calibration
OperatorAway ==
    /\ movePc = "input"
    /\ TickBy({time_since_last_calibration + 1},
              MaxMoveTime + time_since_last_calibration + 1)

\* ------------------------------------------ the detector, called directly
\* a caller's detect_collision(motor, current, position, target_position, load),
\* the arguments taken from these sets; the caller gives up on a motor whose
\* retry_count has reached MaxRetryCount
DetectCollisionCallIn(Curs, Poss, Targets, Loads) ==
    \E m \in {x \in MotorSet : collision_state[x].retry_count < MaxRetryCount} :
    \E cur \in Curs[m], pos \in Poss[m], target \in Targets[m], load \in Loads[m] :
       LET d == DetectCollision(collision_state[m], total_collisions, collision_history,
                                last_calibration_time, m, cur, pos, target, load, now)
       IN /\ collision_state' = [collision_state EXCEPT ![m] = d.state]
          /\ backoff_positions' = StoreBackoff(backoff_positions, m, d.action)
          /\ total_collisions' = d.total
          /\ collision_history' = d.history
          /\ detect_call' = [motor |-> m, current |-> cur, position |-> pos,
                             target |-> target, load |-> load,
                             detected |-> d.detected, action |-> d.action]
          /\ events' = <<>>
          /\ UNCHANGED <<monitorVars, callerPc, new_status, pollPc, pollIdx, torque_enabled,
                         now, last_calibration_time, goalVars, recalibration_callback,
                         metricVars, softVars, oldVars, temperature_history>>

\* trigger_recalibration() with the resets made after the callback has returned
TriggerRecalibration_CallbackFirst ==
    /\ IF recalibration_callback
       THEN \/ /\ last_calibration_time' = now
               /\ total_collisions' = 0
               /\ collision_history' = [m \in MotorSet |-> <<>>]
               /\ events' = <<Ev("callback", "", "recalibration", None)>>
            \/ /\ events' = <<Ev("callback", "", "recalibration", None),
                               Ev("log", "", "Recalibration failed", None)>>
               /\ UNCHANGED <<last_calibration_time, total_collisions, collision_history>>
       ELSE /\ events' = <<>>
            /\ UNCHANGED <<last_calibration_time, total_collisions, collision_history>>
    /\ UNCHANGED <<monitorVars, callerPc, new_status, pollPc, pollIdx, torque_enabled, now,
                   collision_state, backoff_positions, goalVars, directVars>>

\* a caller's trigger_recalibration(); the callback returns or raises
TriggerRecalibration ==
    /\ IF recalibration_callback
       THEN /\ last_calibration_time' = now
            /\ total_collisions' = 0
            /\ collision_history' = [m \in MotorSet |-> <<>>]
            /\ \/ events' = <<Ev("callback", "", "recalibration", None)>>
               \/ events' = <<Ev("callback", "", "recalibration", None),
                              Ev("log", "", "Recalibration failed", None)>>
       ELSE /\ events' = <<>>
            /\ UNCHANGED <<last_calibration_time, total_collisions, collision_history>>
    /\ UNCHANGED <<monitorVars, callerPc, new_status, pollPc, pollIdx, torque_enabled, now,
                   collision_state, backoff_positions, goalVars, directVars>>

\* what a caller passes to detect_collision: the first motor draws a current over
\* current_threshold, at one of two places far from its goal of 50 or within 0.02 of
\* it; the second is far from its goal of 0 under a load over torque_threshold
DetectPosition == [m \in MotorSet |-> IF m = Motors[1] THEN {5, 30, 48} ELSE {-45}]
DetectTarget == [m \in MotorSet |-> IF m = Motors[1] THEN {50} ELSE {0}]
DetectCurrent == [m \in MotorSet |-> IF m = Motors[1] THEN {1000} ELSE {200}]
DetectLoad == [m \in MotorSet |-> IF m = Motors[1] THEN {0} ELSE {-400}]
DetectCollisionCall == DetectCollisionCallIn(DetectCurrent, DetectPosition, DetectTarget, DetectLoad)

\* the same with each motor far from its goal, the second within backoff_distance
\* of its range_min
DetectFarPosition == [m \in MotorSet |-> IF m = Motors[1] THEN {5} ELSE {-45}]
DetectCollisionCallFar ==
    DetectCollisionCallIn(DetectCurrent, DetectFarPosition, DetectTarget, DetectLoad)

\* the first motor at 0.30, 0.45 or 0.46 with its goal at 0.50, pushing against
\* something or moving freely; the second at rest on its goal
RecoverPosition == [m \in MotorSet |-> IF m = Motors[1] THEN {30, 45, 46} ELSE {0}]
RecoverCurrent == [m \in MotorSet |-> IF m = Motors[1] THEN {200, 1000} ELSE {200}]
RecoverLoad == [m \in MotorSet |-> {0}]
DetectCollisionCallRecover ==
    DetectCollisionCallIn(RecoverCurrent, RecoverPosition, DetectTarget, RecoverLoad)

\* the caller triggers the recalibration the last action recommended
RecalibrateWhenAsked == detect_call.action.should_recalibrate /\ TriggerRecalibration

\* time passes between two calls: the caller waits collision_duration on a motor
\* that has begun to resist, cooldown_period on one that is cooling down
DetectTick ==
    \/ /\ \E m \in MotorSet : /\ collision_state[m].detecting
                              /\ now - collision_state[m].collision_start < collision_duration
       /\ TickBy({collision_duration}, MaxDetectTime)
    \/ /\ \E m \in MotorSet : now < collision_state[m].cooldown_until
       /\ TickBy({cooldown_period}, MaxDetectTime)

\* ------------------------------------------------- the adaptive frequency
\* sum(s), and list(history)[-n:]
RECURSIVE Sum(_)
Sum(s) == IF s = <<>> THEN 0 ELSE Head(s) + Sum(Tail(s))
LastN(s, n) == IF Len(s) <= n THEN s ELSE SubSeq(s, Len(s) - n + 1, Len(s))
Min(a, b) == IF a < b THEN a ELSE b
Max(a, b) == IF a > b THEN a ELSE b

\* update_smoothness_metrics: the smoothness of one sample, in thousandths, from
\* the position changes (in 0.01) of the motors that were seen before
Smoothness(deltas) == Max(0, 1000 - (100 * Sum(deltas)) \div Len(deltas))

\* _calculate_optimal_frequency with every update scaling the frequency it computed
\* last, and no floor
CalculateOptimalFrequency_Compounding(smoothness, latency, optimal) ==
    IF Len(smoothness) < 10 THEN optimal
    ELSE LET recent == LastN(smoothness, 10)
             lats == LastN(latency, 10)
             n == Len(lats)
             target == IF Sum(recent) > 8000 THEN 20
                       ELSE IF Sum(recent) > 6000 THEN 50
                       ELSE 80
         IN IF Sum(recent) < 7000 /\ Sum(lats) < 20 * n
            THEN (optimal * 15) \div 10
            ELSE IF Sum(recent) > 9000 /\ Sum(lats) > 50 * n
            THEN (optimal * 7) \div 10
            ELSE IF Sum(lats) > 100 * n
            THEN (optimal * 5) \div 10
            ELSE (7 * optimal + 3 * target) \div 10

\* _calculate_optimal_frequency: the new metrics.optimal_frequency, in 0.1 Hz, from
\* the two histories (smoothness in thousandths, latency in ms); the means of the
\* last ten entries are compared as sums, and an empty latency history counts as 0
CalculateOptimalFrequency(smoothness, latency, optimal) ==
    IF Len(smoothness) < 10 THEN optimal
    ELSE LET recent == LastN(smoothness, 10)
             lats == LastN(latency, 10)
             n == Len(lats)
             target == IF Sum(recent) > 8000 THEN 20
                       ELSE IF Sum(recent) > 6000 THEN 50
                       ELSE 80
         IN IF Sum(recent) < 7000 /\ Sum(lats) < 20 * n
            THEN Min(100, (monitoring_frequency * 15) \div 10)
            ELSE IF Sum(recent) > 9000 /\ Sum(lats) > 50 * n
            THEN Max(10, (monitoring_frequency * 7) \div 10)
            ELSE IF Sum(lats) > 100 * n
            THEN Max(5, (monitoring_frequency * 5) \div 10)
            ELSE (7 * monitoring_frequency + 3 * target) \div 10

\* a caller's update_smoothness_metrics(positions, timestamp), positions a mapping
\* of these
UpdateSmoothnessMetricsIn(Poss) ==
    \E positions \in Poss :
       LET seen == {m \in DOMAIN positions : m \in DOMAIN last_positions}
           order == SelectSeq(Motors, LAMBDA m : m \in seen)
           deltas == [i \in 1..Len(order) |->
                        Abs(positions[order[i]] - last_positions[order[i]])]
           history == IF last_positions # EmptyMap /\ deltas # <<>>
                      THEN AppendCapped(smoothness_history, Smoothness(deltas), 100)
                      ELSE smoothness_history
       IN /\ smoothness_history' = history
          /\ position_jitter' = IF last_positions # EmptyMap
                                THEN ExtendCapped(position_jitter, deltas, 50)
                                ELSE position_jitter
          /\ last_positions' = positions
          /\ optimal_frequency' =
                CalculateOptimalFrequency(history, latency_history, optimal_frequency)
          /\ events' = <<>>
          /\ UNCHANGED <<monitorVars, callerPc, new_status, pollPc, pollIdx, torque_enabled,
                         now, moveVars, recalibration_callback, detect_call,
                         latency_history, softVars, oldVars, temperature_history>>

\* a caller's record_latency(latency_ms), latency_ms one of these
RecordLatencyIn(Latencies) ==
    \E latency_ms \in Latencies :
       /\ latency_history' = AppendCapped(latency_history, latency_ms, 100)
       /\ events' = <<>>
       /\ UNCHANGED <<monitorVars, callerPc, new_status, pollPc, pollIdx, torque_enabled,
                      now, moveVars, recalibration_callback, detect_call,
                      smoothness_history, optimal_frequency, last_positions,
                      position_jitter, temperature_history, softVars,
                      oldVars>>

\* the goal move's sleep_time, in ms, after a cycle of cycle_ms
SleepTime(optimal, cycle_ms) == Max(0, 10000 \div optimal - cycle_ms)

\* what the calls are given: the second motor still, the first still or shaking by
\* 0.10; loops of 10, 60 and 200 ms. The arm is smooth and then shakes, the loop is
\* fast and then slows down
RECURSIVE Descending(_)
Descending(s) == Len(s) < 2 \/ (s[1] >= s[2] /\ Descending(Tail(s)))
FreqPositions == {[m \in MotorSet |-> IF m = Motors[1] THEN p ELSE 0] : p \in {0, 10}}
FreqLatencies == {10, 60, 200}
UpdateSmoothnessMetrics ==
    /\ Len(smoothness_history) < MaxSamples
    /\ UpdateSmoothnessMetricsIn(FreqPositions)
    /\ Descending(smoothness_history')
RecordLatency ==
    /\ Len(latency_history) < MaxSamples
    /\ RecordLatencyIn(FreqLatencies)
    /\ Descending([i \in 1..Len(latency_history') |-> -latency_history'[i]])

\* -------------------------------------------------- the bounded histories
\* _check_temperature keeping the oldest entries: pop() where the code has pop(0)
TrackTemperature_KeepOldest(history, temp) ==
    LET appended == Append(history, temp)
    IN IF Len(appended) > 100 THEN SubSeq(appended, 1, 100) ELSE appended

\* _check_temperature: temperature_history after the sample temp
TrackTemperature(history, temp) ==
    LET appended == Append(history, temp)
    IN IF Len(appended) > 100 THEN Tail(appended) ELSE appended

\* one pass of the loop over bus.motors with the temperature history of the motor
\* kept; the motor is cool, its temperature going up and down by one degree
PollMotorTracked ==
    /\ pollPc = "motors"
    /\ \E temp \in {IF temperature[Motors[pollIdx]] = 34 THEN 35 ELSE 34} :
          /\ CheckMotor(Motors[pollIdx], temp, 200, 44, 1000, TRUE)
          /\ temperature_history' =
                [temperature_history EXCEPT ![Motors[pollIdx]] = TrackTemperature(@, temp)]
    /\ IF pollIdx < Len(Motors)
       THEN pollIdx' = pollIdx + 1 /\ pollPc' = "motors"
       ELSE pollIdx' = 1 /\ pollPc' = "status"
    /\ UNCHANGED <<moveVars, callerPc, new_status, status, emergency_stop_active,
                   monitoring_active, stop_event, now, recalibration_callback, detect_call,
                   metricVars, softVars, oldVars>>

\* the positions a control loop passes to update_smoothness_metrics: both motors go
\* 0.00, 0.01, 0.03, 0.02 and round again, by 0.01 and by 0.02 in turn
NextPosition(p) == IF p = 0 THEN 1 ELSE IF p = 1 THEN 3 ELSE IF p = 3 THEN 2 ELSE 0
UpdateSmoothnessMetricsNext ==
    UpdateSmoothnessMetricsIn({[m \in MotorSet |-> NextPosition(last_positions[m])]})

\* the latencies a control loop records: each one ms above the last
RecordLatencyNext ==
    /\ latency_history[Len(latency_history)] < MaxLatency
    /\ RecordLatencyIn({latency_history[Len(latency_history)] + 1})

\* the calls a control loop makes to detect_collision: the first motor pushes against
\* something at 0.30 or at 0.45, the second is at rest on its goal
HistoryPosition == [m \in MotorSet |-> IF m = Motors[1] THEN {30, 45} ELSE {0}]
DetectCollisionCallNext ==
    DetectCollisionCallIn(DetectCurrent, HistoryPosition, DetectTarget, RecoverLoad)

\* a monitor and a detector without callback that have been running: 99 polls of
\* either motor, 99 latencies recorded, 100 position samples taken, 9 collisions of
\* the first motor, which has recovered
RunningInit ==
    /\ temperature = [m \in MotorSet |-> 34]
    /\ temperature_history =
          [m \in MotorSet |-> [i \in 1..99 |-> IF i % 2 = 1 THEN 34 ELSE 35]]
    /\ current = [m \in MotorSet |-> 200]
    /\ position = [m \in MotorSet |-> 44]
    /\ high_current_start_time = [m \in MotorSet |-> None]
    /\ is_stalled = [m \in MotorSet |-> FALSE]
    /\ violations = [m \in MotorSet |-> <<>>]
    /\ status = NORMAL
    /\ emergency_stop_active = FALSE
    /\ monitoring_active = TRUE
    /\ stop_event = FALSE
    /\ stats = [total_violations |-> 0, temperature_warnings |-> 0,
                current_stalls |-> 0, emergency_stops |-> 0]
    /\ callerPc = "idle"
    /\ pollPc = "loop"
    /\ new_status = ""
    /\ pollIdx = 1
    /\ torque_enabled = [m \in MotorSet |-> TRUE]
    /\ now = 0
    /\ events = <<>>
    /\ collision_state = [m \in MotorSet |->
                            [detecting |-> FALSE, collision_start |-> None,
                             backed_off |-> FALSE, retry_count |-> 0, cooldown_until |-> 0]]
    /\ collision_history =
          [m \in MotorSet |-> IF m = Motors[1]
                              THEN [i \in 1..9 |-> IF i % 2 = 1 THEN 30 ELSE 45]
                              ELSE <<>>]
    /\ total_collisions = 9
    /\ last_calibration_time = 0
    /\ backoff_positions = Put(EmptyMap, Motors[1], 30 - backoff_distance)
    /\ goal_positions = <<>>
    /\ timeout = 0
    /\ start_time = 0
    /\ active_movements = EmptyMap
    /\ movements_complete = TRUE
    /\ held = NoHeld
    /\ result = InitialResult
    /\ movePc = "idle"
    /\ moveIdx = 1
    /\ resisted = FALSE
    /\ recalibration_callback = FALSE
    /\ detect_call = NoCall
    /\ smoothness_history = [i \in 1..99 |-> IF i % 2 = 1 THEN 900 ELSE 800]
    /\ latency_history = [i \in 1..99 |-> i]
    /\ optimal_frequency =
          CalculateOptimalFrequency(smoothness_history, latency_history,
                                    initial_optimal_frequency)
    /\ last_positions = [m \in MotorSet |-> 2]
    /\ position_jitter = [i \in 1..50 |-> IF ((i + 1) \div 2) % 2 = 1 THEN 1 ELSE 2]
    /\ SoftStartInit({default_soft_start_steps})
    /\ OldInit

\* ------------------------------------------- a shutdown handler that raises
\* _handle_temperature_critical up to the call that raises: bus.disable_torque, or
\* the callback after it
HandleTemperatureCriticalRaises(m, temp, where) ==
    [viols |-> <<TEMPERATURE_CRITICAL>>,
     events |-> IF where = "disable_torque"
                THEN <<Ev("violation", m, TEMPERATURE_CRITICAL, temp),
                       Ev("disable_torque_error", m, "Torque_Enable", 0)>>
                ELSE <<Ev("violation", m, TEMPERATURE_CRITICAL, temp),
                       Ev("disable_torque", m, "Torque_Enable", 0),
                       Ev("callback_error", m, "temperature_shutdown", temp)>>,
     disabled |-> where = "callback"]

\* one pass of the loop over bus.motors for a motor at or above temperature_shutdown
\* whose handler raises: the exception leaves _check_temperature and
\* _perform_safety_checks, and _monitor_loop logs it
PollMotorShutdownRaises ==
    /\ pollPc = "motors"
    /\ \E temp \in RisingTemperature[Motors[pollIdx]], cur \in NominalCurrents[Motors[pollIdx]],
          pos \in Positions, where \in {"disable_torque", "callback"} :
          LET m == Motors[pollIdx]
              act == HandleTemperatureCriticalRaises(m, temp, where)
          IN /\ temp >= temperature_shutdown
             /\ stats.total_violations + Len(act.viols) <= MaxViolations
             /\ temperature' = [temperature EXCEPT ![m] = temp]
             /\ current' = [current EXCEPT ![m] = Abs(cur)]
             /\ position' = [position EXCEPT ![m] = pos]
             /\ violations' = [violations EXCEPT ![m] = @ \o act.viols]
             /\ stats' = RecordViolation(stats, act.viols)
             /\ torque_enabled' = IF act.disabled
                                  THEN [torque_enabled EXCEPT ![m] = FALSE]
                                  ELSE torque_enabled
             /\ events' = act.events
                           \o <<Ev("log", "", "Error in safety monitor loop", None)>>
    /\ pollPc' = "loop"
    /\ pollIdx' = 1
    /\ UNCHANGED <<moveVars, callerPc, new_status, status, emergency_stop_active,
                   monitoring_active, stop_event, high_current_start_time, is_stalled,
                   now, directVars>>

\* ------------------------------------- two polling threads at the same time
\* the timeout of the join in stop_monitoring()
join_timeout == 20

\* start_monitoring() after a stop_monitoring() whose join ran into its timeout: the
\* thread has spent join_timeout in a bus call or callback of its cycle and is still
\* there. It lives on beside the thread started now
StartMonitoringUnjoined ==
    /\ callerPc = "idle"
    /\ ~monitoring_active
    /\ stop_event
    /\ pollPc = "motors"
    /\ oldPc = "off"
    /\ now + join_timeout <= MaxJoinTime
    /\ now' = now + join_timeout
    /\ monitoring_active' = TRUE
    /\ stop_event' = FALSE
    /\ oldPc' = pollPc
    /\ oldIdx' = pollIdx
    /\ old_status' = new_status
    /\ pollPc' = "loop"
    /\ pollIdx' = 1
    /\ new_status' = ""
    /\ events' = <<Ev("log", "", "Motor safety monitoring stopped", None),
                   Ev("log", "", "Motor safety monitoring started", None)>>
    /\ UNCHANGED <<moveVars, callerPc, motorVars, status, emergency_stop_active, stats,
                   torque_enabled, recalibration_callback, detect_call, metricVars,
                   softVars, temperature_history>>

\* _monitor_loop of the older thread: the loop test finds the stop event set
OldPollExit ==
    /\ oldPc = "loop"
    /\ stop_event
    /\ oldPc' = "off"
    /\ events' = <<>>
    /\ UNCHANGED <<moveVars, callerPc, new_status, monitorVars, pollPc, pollIdx,
                   torque_enabled, now, recalibration_callback, detect_call, metricVars,
                   softVars, temperature_history, oldIdx, old_status>>

\* _perform_safety_checks of the older thread, the three sync_read calls
OldPollRead ==
    /\ oldPc = "loop"
    /\ ~stop_event
    /\ oldPc' = "motors"
    /\ oldIdx' = 1
    /\ events' = <<>>
    /\ UNCHANGED <<moveVars, callerPc, new_status, monitorVars, pollPc, pollIdx,
                   torque_enabled, now, recalibration_callback, detect_call, metricVars,
                   softVars, temperature_history, old_status>>

\* one pass of the older thread's loop over bus.motors
OldPollMotorIn(Temps, Curs, Poss, Limits, Oks) ==
    /\ oldPc = "motors"
    /\ \E temp \in Temps[Motors[oldIdx]], cur \in Curs[Motors[oldIdx]],
          pos \in Poss, tl \in Limits, ok \in Oks :
          CheckMotor(Motors[oldIdx], temp, cur, pos, tl, ok)
    /\ IF oldIdx < Len(Motors)
       THEN oldIdx' = oldIdx + 1 /\ oldPc' = "motors"
       ELSE oldIdx' = 1 /\ oldPc' = "status"
    /\ UNCHANGED <<moveVars, callerPc, new_status, status, emergency_stop_active,
                   monitoring_active, stop_event, pollPc, pollIdx, now,
                   recalibration_callback, detect_call, metricVars, softVars,
                   temperature_history, old_status>>

\* _update_global_status of the older thread, up to the test of the emergency flag
OldPollStatus ==
    /\ oldPc = "status"
    /\ old_status' = GlobalStatus(temperature, is_stalled, emergency_stop_active)
    /\ oldPc' = "write"
    /\ events' = <<>>
    /\ UNCHANGED <<moveVars, callerPc, new_status, monitorVars, pollPc, pollIdx,
                   torque_enabled, now, recalibration_callback, detect_call, metricVars,
                   softVars, temperature_history, oldIdx>>

\* _update_global_status of the older thread, the assignment to self.status
OldPollStatusWrite ==
    /\ oldPc = "write"
    /\ status' = old_status
    /\ old_status' = ""
    /\ oldPc' = "loop"
    /\ events' = <<>>
    /\ UNCHANGED <<moveVars, callerPc, new_status, motorVars, emergency_stop_active,
                   monitoring_active, stop_event, stats, pollPc, pollIdx, torque_enabled,
                   now, recalibration_callback, detect_call, metricVars, softVars,
                   temperature_history, oldIdx>>

\* the motors cool or warm, at rest
QuietTemperature == [m \in MotorSet |-> {34, 40}]
PollMotorQuiet == PollMotorIn(QuietTemperature, NominalCurrents, {44}, {1000}, {TRUE})
OldPollMotorQuiet == OldPollMotorIn(QuietTemperature, NominalCurrents, {44}, {1000}, {TRUE})

\* ------------------------------------------------------- the soft start
\* Python floats, at a precision of FloatBits bits instead of 53. A number is an
\* integer count of the smallest step the format has near zero; Float(x) is x
\* rounded to FloatBits significant bits, ties to even
RECURSIVE BitLength(_)
BitLength(a) == IF a = 0 THEN 0 ELSE 1 + BitLength(a \div 2)
RECURSIVE Pow2(_)
Pow2(n) == IF n = 0 THEN 1 ELSE 2 * Pow2(n - 1)

\* a / b rounded to the nearest integer, ties to even (a >= 0, b > 0)
RoundDiv(a, b) ==
    LET q == a \div b
        r == a - q * b
    IN IF 2 * r > b \/ (2 * r = b /\ q % 2 = 1) THEN q + 1 ELSE q

Float(x) ==
    LET a == Abs(x)
        ulp == IF BitLength(a) > FloatBits THEN Pow2(BitLength(a) - FloatBits) ELSE 1
    IN Sign(x) * RoundDiv(a, ulp) * ulp

\* np.cos of an angle in degrees, in 256ths
CosTable ==
    30 :> 222 @@ 36 :> 207 @@ 45 :> 181 @@ 60 :> 128 @@ 72 :> 79 @@ 90 :> 0 @@
    108 :> -79 @@ 120 :> -128 @@ 135 :> -181 @@ 144 :> -207 @@ 150 :> -222 @@ 180 :> -256

\* np.cos(np.pi * k / n) in 256ths, for n up to 6
CosPi(k, n) == CosTable[(180 * k) \div n]

\* apply_soft_start: s_curve of step i (from 0) of steps, in 512ths
SCurve(i, steps) == 256 - CosPi(i + 1, steps)

\* apply_soft_start: the position of step i
SoftStartPosition(i, steps, target_position, current_position) ==
    LET distance == Float(target_position - current_position)
        scaled == Float(Sign(distance) * RoundDiv(SCurve(i, steps) * Abs(distance), 512))
    IN Float(current_position + scaled)

\* apply_soft_start(motor, target_position, current_position): the target any float
\* up to MaxPosition, the motor at rest at one end, in the middle or in between
SoftStartFloats == {x \in -MaxPosition..MaxPosition : Float(x) = x}
SoftStartCurrents == {-20, 0, 15} \cap SoftStartFloats
ApplySoftStart ==
    /\ \E m \in MotorSet, target_position \in SoftStartFloats,
          current_position \in SoftStartCurrents :
          /\ soft_start' =
                [motor |-> m, target |-> target_position, current |-> current_position,
                 positions |-> [i \in 1..soft_start_steps |->
                                  SoftStartPosition(i - 1, soft_start_steps,
                                                    target_position, current_position)]]
          /\ soft_start_active' = [soft_start_active EXCEPT ![m] = FALSE]
    /\ events' = <<>>
    /\ UNCHANGED <<monitorVars, callerPc, new_status, pollPc, pollIdx, torque_enabled, now,
                   moveVars, recalibration_callback, detect_call, metricVars,
                   soft_start_steps, oldVars, temperature_history>>

\* the one emergency stop of a run with goal moves
EmergencyStopOnce == stats.emergency_stops = 0 /\ EmergencyStop

ThreadNext ==
    \/ PollExit
    \/ PollRead
    \/ PollReadError
    \/ PollStatus
    \/ PollStatusWrite

\* the monitor and its callers, the motors idle
Next ==
    \/ StartMonitoring
    \/ StopMonitoring
    \/ EmergencyStop
    \/ EmergencyStopReturn
    \/ ResetEmergencyStop
    \/ ThreadNext
    \/ PollMotorCool

Spec == Init /\ [][Next]_vars

\* the monitor polling motors that heat up
ThermalNext ==
    \/ StartMonitoring
    \/ StopMonitoring
    \/ ThreadNext
    \/ PollMotor

ThermalSpec == Init /\ [][ThermalNext]_vars

\* the monitor polling motors that heat up, on a bus or with a callback that can fail
ShutdownNext ==
    \/ StartMonitoring
    \/ StopMonitoring
    \/ ThreadNext
    \/ PollMotor
    \/ PollMotorShutdownRaises

ShutdownSpec == Init /\ [][ShutdownNext]_vars

\* the monitor polling a loaded motor, with time
StallNext ==
    \/ StartMonitoring
    \/ StopMonitoring
    \/ ThreadNext
    \/ PollMotorLoaded
    \/ Tick

StallSpec == Init /\ [][StallNext]_vars

\* goal moves, with time and the emergency stop
MoveNext ==
    \/ EmergencyStopOnce
    \/ EmergencyStopReturn
    \/ ResetEmergencyStop
    \/ SafeMoveStart
    \/ SafeMoveRead
    \/ SafeMoveReadError
    \/ SafeMoveTimeout
    \/ SafeMoveMotor
    \/ RecalibrationConfirmed
    \/ SafeMoveIterationEnd
    \/ MoveTick

MoveSpec == Init /\ [][MoveNext]_vars

\* goal moves of two motors that are both held back, and a slow operator
HeldNext ==
    \/ SafeMoveStart
    \/ SafeMoveRead
    \/ SafeMoveTimeout
    \/ SafeMoveMotorHeld
    \/ RecalibrationConfirmed
    \/ SafeMoveIterationEnd
    \/ DetectTick
    \/ OperatorAway

HeldSpec == Init /\ [][HeldNext]_vars

\* the same with recalibrations that fail at any of their steps
SafeMoveMotorTorqueRaises == SafeMoveMotorTorqueRaisesIn(HeldPosition, HeldCurrent, {0})
RecalibrationNext ==
    \/ HeldNext
    \/ SafeMoveMotorTorqueRaises
    \/ RecalibrationRaises

RecalibrationSpec == Init /\ [][RecalibrationNext]_vars

\* a goal move called early enough for its timeout to run out on this clock
SafeMoveStartEarly ==
    /\ \A tmo \in Timeouts : now + tmo <= MaxDetectTime
    /\ SafeMoveStart

\* the time.sleep calls that end the iterations of the goal move, up to its timeout
SleepTick ==
    /\ movePc = "loop"
    /\ now - start_time < timeout
    /\ TickBy({start_time + timeout - now}, MaxDetectTime)

\* the steps of the goal move that are the program's own: its loop test, the bus
\* calls and the detector
MoveStep ==
    SafeMoveRead \/ SafeMoveTimeout \/ SafeMoveMotorHeld \/ SafeMoveIterationEnd

\* goal moves of two held motors with a scheduler and a clock: a step of the move
\* that can be taken is taken, and every iteration sleeps for some time. The operator
\* at the recalibration prompt is under no obligation
ReturnNext ==
    \/ SafeMoveStartEarly
    \/ MoveStep
    \/ RecalibrationConfirmed
    \/ SleepTick
    \/ DetectTick
    \/ OperatorAway

ReturnSpec ==
    /\ Init
    /\ [][ReturnNext]_vars
    /\ WF_vars(MoveStep)
    /\ SF_vars(SleepTick)

\* a detector of its own, with or without a recalibration callback
DetectorInit ==
    /\ MonitorInit /\ MoveInit /\ DirectInit(BOOLEAN)
    /\ SoftStartInit({default_soft_start_steps}) /\ OldInit

\* the detector's methods called in any order, with time
DetectorNext ==
    \/ DetectCollisionCall
    \/ RecalibrateWhenAsked
    \/ DetectTick

DetectorSpec == DetectorInit /\ [][DetectorNext]_vars

\* the caller samples a motor that has begun to resist more often than once in
\* collision_duration
SampleTick ==
    /\ \E m \in MotorSet : collision_state[m].detecting
    /\ TickBy({2}, MaxSampleTime)

\* the detector called for a motor that gets free again after its backoffs
RecoveryNext ==
    \/ DetectCollisionCallRecover
    \/ RecalibrateWhenAsked
    \/ DetectTick
    \/ SampleTick

RecoverySpec == DetectorInit /\ [][RecoveryNext]_vars

\* the monitor polling while a caller uses a detector on the same bus, whose
\* calibration and motor table know the range of the second motor only
CalibrationNext ==
    \/ StartMonitoring
    \/ PollRead
    \/ PollMotorNear
    \/ PollStatus
    \/ PollStatusWrite
    \/ DetectCollisionCallFar
    \/ DetectTick

CalibrationSpec == Init /\ [][CalibrationNext]_vars

\* monitoring started and stopped again and again, the joins timing out or not
LifecycleNext ==
    \/ StartMonitoring
    \/ StopMonitoring
    \/ StartMonitoringUnjoined
    \/ PollExit
    \/ PollRead
    \/ PollMotorQuiet
    \/ PollStatus
    \/ PollStatusWrite
    \/ OldPollExit
    \/ OldPollRead
    \/ OldPollMotorQuiet
    \/ OldPollStatus
    \/ OldPollStatusWrite

LifecycleSpec == Init /\ [][LifecycleNext]_vars

\* the steps of the polling thread, and of the thread an unjoined start left behind
PollingTask ==
    PollExit \/ PollRead \/ PollReadError \/ PollMotorQuiet \/ PollStatus \/ PollStatusWrite
OldPollingTask ==
    OldPollExit \/ OldPollRead \/ OldPollMotorQuiet \/ OldPollStatus \/ OldPollStatusWrite

\* the same with sync_read calls that raise, and threads that are scheduled: a bus
\* call returns or raises and time.sleep returns, so a thread that can take a step
\* takes one. The callers are under no obligation
StopNext == LifecycleNext \/ PollReadError
StopSpec ==
    /\ Init
    /\ [][StopNext]_vars
    /\ WF_vars(PollingTask)
    /\ WF_vars(OldPollingTask)

\* a monitor with any soft_start_steps up to MaxSteps
SoftStartSpecInit ==
    MonitorInit /\ MoveInit /\ DirectInit({TRUE}) /\ SoftStartInit(1..MaxSteps) /\ OldInit

\* soft start trajectories asked for in any order
SoftStartNext == ApplySoftStart

SoftStartSpec == SoftStartSpecInit /\ [][SoftStartNext]_vars

\* the polling thread and a control loop that feeds the metrics and the detector,
\* all histories near their caps
HistoryNext ==
    \/ PollRead
    \/ PollMotorTracked
    \/ PollStatus
    \/ PollStatusWrite
    \/ UpdateSmoothnessMetricsNext
    \/ RecordLatencyNext
    \/ DetectCollisionCallNext
    \/ DetectTick

HistorySpec == RunningInit /\ [][HistoryNext]_vars

\* the metrics fed in any order
FreqNext ==
    \/ UpdateSmoothnessMetrics
    \/ RecordLatency

FreqSpec == Init /\ [][FreqNext]_vars

\* ------------------------------------------------------------ properties
\* the steps of the polling thread, told by its position
MotorPolled == pollPc = "motors" /\ pollIdx' # pollIdx
StatusRecomputed == pollPc = "write" /\ pollPc' = "loop"
PolledMotor == Motors[pollIdx]

IsBusWrite(e) == e.op \in {"write", "disable_torque", "enable_torque"}
IsCallback(e) == e.op = "callback"
ResetLog == <<Ev("log", "", "Emergency stop reset", None)>>
RefusedLog == <<Ev("log", "", "Cannot reset emergency stop", None)>>

\* C1: once set, emergency_stop_active goes back to false only in a
\* reset_emergency_stop() made while every motor's recorded temperature is below
\* cooldown_temperature; a reset made while some motor is at or above it changes
\* nothing.
C1_EmergencyStopLatched ==
    [][ /\ (emergency_stop_active /\ ~emergency_stop_active')
            => (AllTempsSafe /\ events' = ResetLog)
        /\ (emergency_stop_active /\ ~AllTempsSafe /\ ResetEmergencyStop)
            => UNCHANGED <<monitorVars, callerPc, new_status, pollPc, pollIdx,
                           torque_enabled, now, directVars>>
      ]_vars

\* a refused reset after two emergency stops, the polling thread running
C1_Witness ==
    /\ emergency_stop_active
    /\ stats.emergency_stops = 2
    /\ events = RefusedLog
    /\ pollPc = "motors"
    /\ \E m \in MotorSet : temperature[m] = cooldown_temperature

\* C2: every emergency_stop() returns with the flag set and the status
\* EMERGENCY_STOP, having disabled the torque of all motors, counted one more
\* emergency stop and called the callback once, with ("emergency_stop", None, None).
C2_EmergencyStopEffect ==
    [][ EmergencyStopReturn =>
          /\ emergency_stop_active'
          /\ status' = EMERGENCY_STOP
          /\ \A m \in MotorSet : ~torque_enabled'[m]
          /\ SelectSeq(events', IsBusWrite) = <<Ev("disable_torque", "", "Torque_Enable", 0)>>
          /\ stats'.emergency_stops = stats.emergency_stops + 1
          /\ SelectSeq(events', IsCallback) = <<Ev("callback", "", "emergency_stop", None)>>
      ]_vars

\* C3: after a successful reset_emergency_stop() the status is NORMAL.
C3_ResetRestoresNormal == (events = ResetLog) => status = NORMAL

IsMotion(e) == (e.op = "write" /\ e.key = "Goal_Position") \/ e.op = "enable_torque"

\* C4: while emergency_stop_active is true no step writes a Goal_Position or
\* enables torque.
C4_NoMotionWhileStopped == emergency_stop_active => SelectSeq(events, IsMotion) = <<>>

\* what a step did to the torque of the motors, and the callbacks it made
IsTorqueCall(e) == e.key \in {"Torque_Limit", "Torque_Enable"}
TorqueCalls(es) == SelectSeq(es, IsTorqueCall)
Callbacks(es) == SelectSeq(es, IsCallback)
DisablesOf(es, m) == SelectSeq(es, LAMBDA e : e.op = "disable_torque" /\ e.motor \in {m, ""})
Halved(read, written) == 2 * written <= read /\ read < 2 * written + 2

WentThroughBands(m) ==
    /\ Len(violations[m]) >= 3
    /\ violations[m][1] = TEMPERATURE_WARNING
    /\ violations[m][2] = TEMPERATURE_CRITICAL
    /\ temperature[m] >= temperature_shutdown

\* C6: over a rising temperature sequence torque is disabled exactly once: a motor
\* that went through the warning and critical bands and was shut down at a sample
\* at or above temperature_shutdown gets no second disable_torque from a later
\* sample.
C6_TorqueDisabledOnce ==
    [][ (MotorPolled /\ WentThroughBands(PolledMotor) /\ ~torque_enabled[PolledMotor])
          => DisablesOf(events', PolledMotor) = <<>>
      ]_vars

IsStallEvent(e) == e.key \in {CURRENT_STALL, "stall_detected", "Torque_Enable"}
StallEvents(es) == SelectSeq(es, IsStallEvent)
StallAction(m, cur) ==
    <<Ev("violation", m, CURRENT_STALL, cur),
      Ev("disable_torque", m, "Torque_Enable", 0),
      Ev("callback", m, "stall_detected", cur)>>

C8_SpikeTakesOff30Percent ==
    \A i \in 2..Len(events) :
        ( /\ events[i].op = "write" /\ events[i].key = "Torque_Limit"
          /\ events[i - 1].op = "read"
          /\ current[events[i].motor] >= current_spike_threshold
          /\ temperature[events[i].motor] < temperature_critical )
        => events[i].value = events[i - 1].value - (events[i - 1].value * 30) \div 100

\* the status the claim derives from the state
DerivedStatus ==
    IF emergency_stop_active THEN EMERGENCY_STOP
    ELSE IF \E m \in MotorSet : is_stalled[m] \/ temperature[m] >= temperature_critical
    THEN CRITICAL
    ELSE IF \E m \in MotorSet : temperature[m] >= temperature_warning
    THEN WARNING
    ELSE NORMAL

\* C9: the status a poll cycle ends with is EMERGENCY_STOP if the flag is set,
\* else CRITICAL if some motor is stalled or at or above temperature_critical, else
\* WARNING if some motor is at or above temperature_warning, else NORMAL.
C9_StatusDerived == [][ StatusRecomputed => status' = DerivedStatus' ]_vars

\* C10: a sync_read that raises changes no motor state, violation list, statistic
\* or status and writes nothing to the bus, and the thread stays in its loop, where
\* the next cycle can start unless the stop event is set.
C10_ReadErrorAbsorbed ==
    /\ [][ PollReadError =>
             /\ UNCHANGED <<motorVars, status, emergency_stop_active, stats,
                            torque_enabled>>
             /\ SelectSeq(events', IsBusWrite) = <<>>
             /\ pollPc' = "loop"
         ]_vars
    /\ []((pollPc = "loop" /\ ~stop_event) => ENABLED PollRead)

\* a failed read in a monitor that has recorded violations and is not stopped
C10_Witness ==
    /\ Len(events) > 0 /\ events[1].op = "sync_read_error"
    /\ pollPc = "loop" /\ ~stop_event
    /\ stats.total_violations > 0


\* everything but the log lines of a step
StateVars ==
    <<monitorVars, callerPc, new_status, pollPc, pollIdx, torque_enabled, now, moveVars,
      directVars>>
AlreadyActiveLog == <<Ev("log", "", "Safety monitoring already active", None)>>

\* C11: start_monitoring() called while monitoring is active starts no polling
\* thread and changes no state; stop_monitoring() called while monitoring is not
\* active changes nothing; after every stop_monitoring() monitoring_active is false.
C11_StartStopIdempotent ==
    [][ /\ (StartMonitoring /\ monitoring_active) => UNCHANGED StateVars
        /\ (StopMonitoring /\ ~monitoring_active) => UNCHANGED StateVars
        /\ StopMonitoring => ~monitoring_active'
      ]_vars

\* a second start_monitoring() while the thread is in the middle of a cycle
C11_Witness ==
    /\ events = AlreadyActiveLog
    /\ monitoring_active
    /\ pollPc = "motors" /\ pollIdx = 2

\* the detect_collision call a step made, and the state of its motor before it
Call == detect_call'
Before == collision_state[Call.motor]
After == collision_state'[Call.motor]
CallResisting == IsResisting(Call.current, Call.position, Call.target, Call.load)

\* C12: outside cooldown, a resisting call made collision_duration or more after
\* the first call of an unbroken run of resisting calls, for a motor with
\* retry_count + 1 < max_retries, returns (True, backoff), with the backoff position
\* inside [range_min, range_max] when the motor declares them, and starts a cooldown
\* of cooldown_period; every call made before the cooldown has elapsed returns
\* (False, cooldown).
C12_BackoffThenCooldown ==
    [][ DetectCollisionCall =>
          /\ ( /\ now >= Before.cooldown_until
               /\ CallResisting
               /\ Before.detecting
               /\ now - Before.collision_start >= collision_duration
               /\ Before.retry_count + 1 < max_retries )
             => /\ Call.detected
                /\ Call.action.action = "backoff"
                /\ DeclaresRange(Call.motor) =>
                      /\ Call.action.backoff_position >= range_min[Call.motor]
                      /\ Call.action.backoff_position <= range_max[Call.motor]
                /\ After.cooldown_until = now + cooldown_period
          /\ now < Before.cooldown_until =>
                /\ ~Call.detected
                /\ Call.action.action = "cooldown"
      ]_vars

\* the second motor, which declares its range, was sent back to range_min by its
\* second backoff, collision_duration after it began to resist again
C12_Witness ==
    /\ detect_call.motor = Motors[2]
    /\ detect_call.detected
    /\ detect_call.action.action = "backoff"
    /\ detect_call.action.retry_count = 2
    /\ detect_call.action.backoff_position = range_min[Motors[2]]
    /\ now = collision_state[Motors[2]].collision_start + collision_duration
    /\ collision_state[Motors[2]].cooldown_until = now + cooldown_period

\* C13: every confirmed collision adds one to the motor's retry_count, and no call
\* lowers it except the reset to 0 of a recovery; the confirmed collisions that
\* bring it to 1 .. max_retries - 1 return backoff, the one that brings it to
\* max_retries returns abort.
C13_RetryExhaustion ==
    [][ DetectCollisionCall =>
          /\ Call.detected =>
                /\ After.retry_count = Before.retry_count + 1
                /\ After.retry_count < max_retries => Call.action.action = "backoff"
                /\ After.retry_count = max_retries => Call.action.action = "abort"
          /\ ~Call.detected => After.retry_count \in {Before.retry_count, 0}
      ]_vars

\* the third confirmed collision in a row of the first motor, two cooldowns after
\* the first
C13_Witness ==
    /\ detect_call.motor = Motors[1]
    /\ detect_call.detected
    /\ detect_call.action.action = "abort"
    /\ collision_state[Motors[1]].retry_count = max_retries
    /\ now = 2 * (collision_duration + cooldown_period) + collision_duration

\* C14: every motor's retry_count is at most max_retries.
C14_RetryCountBounded == \A m \in MotorSet : collision_state[m].retry_count <= max_retries

\* C15: a confirmed collision that brings total_collisions to
\* consecutive_collisions_for_recal or more returns an action with should_recalibrate
\* true, be it backoff or abort.
C15_RecalibrateAtCollisionCount ==
    [][ DetectCollisionCall =>
          ( ( /\ Call.detected
              /\ total_collisions' >= consecutive_collisions_for_recal )
            => Call.action.should_recalibrate )
      ]_vars

\* a backoff as the fifth collision, recommended for its count alone: no motor's
\* last three collisions cluster
C15_Witness ==
    /\ detect_call.detected
    /\ detect_call.action.action = "backoff"
    /\ detect_call.action.should_recalibrate
    /\ total_collisions = consecutive_collisions_for_recal
    /\ ~Clustered(collision_history)

IsRaise(e) == e.op = "raise"
RecalibrationCallback == <<Ev("callback", "", "recalibration", None)>>

\* C16: trigger_recalibration() on a detector with a callback sets total_collisions
\* to 0, empties every motor's collision history and calls the callback once; when
\* the callback raises, nothing is raised to the caller and the resets stay.
C16_TriggerRecalibrationResets ==
    [][ (TriggerRecalibration /\ recalibration_callback) =>
          /\ total_collisions' = 0
          /\ \A m \in MotorSet : collision_history'[m] = <<>>
          /\ Callbacks(events') = RecalibrationCallback
          /\ SelectSeq(events', IsRaise) = <<>>
      ]_vars

\* the callback raised after collisions had been counted, and the counters are reset
C16_Witness ==
    /\ events = RecalibrationCallback \o <<Ev("log", "", "Recalibration failed", None)>>
    /\ total_collisions = 0
    /\ \A m \in MotorSet : collision_history[m] = <<>>
    /\ \E m \in MotorSet : collision_state[m].retry_count >= 2

\* C17: the adaptive frequency is between 0.5 and 10.0 Hz after every call, hence
\* positive, and the sleep computed from it is defined and not negative.
C17_FrequencyInRange ==
    /\ optimal_frequency >= 5
    /\ optimal_frequency <= 100
    /\ \A cycle_ms \in {0, 10, 60, 200, 2000} : SleepTime(optimal_frequency, cycle_ms) >= 0

\* the frequency was lowered to 1.0 Hz, its lowest, by ten slow loops
C17_Witness ==
    /\ optimal_frequency = 10
    /\ Len(smoothness_history) >= 10
    /\ Sum(LastN(latency_history, 10)) = 2000

\* the goal move is inside its while loop: the loop test has passed or is about to
\* pass, a motor is being handled, or the recalibration waits for the operator
InLoop ==
    \/ movePc \in {"motors", "input"}
    \/ movePc = "loop" /\ now - start_time < timeout

\* C18: an exception raised inside the goal-move loop (a failing bus read, a failing
\* backoff write, an internal error) is caught: the call returns a result with the
\* message under the error key and success False, and active_movements is empty
C18_LoopExceptionCaught ==
    [][(InLoop /\ movePc' = "idle")
         => /\ result'.error # ""
            /\ ~result'.success
            /\ active_movements' = EmptyMap]_vars

\* a goal move has returned after its backoff write raised
C18_Witness ==
    /\ movePc = "idle"
    /\ result.error = "write"
    /\ Len(events) = 1 /\ events[1].op = "write_error"
    /\ ~result.success
    /\ active_movements = EmptyMap

\* an iteration of the goal move has found every goal motor within 0.02 of its goal,
\* and no motor showed resistance at any read of this move
FreeMoveComplete == movePc = "end" /\ movements_complete /\ ~resisted

\* C19: a goal move in which no motor ever shows resistance and every goal motor
\* reaches a position within 0.02 of its goal before the timeout returns success
\* True, an empty collisions map, no error key and recalibration_triggered False
C19_FreeMoveSucceeds ==
    [][(FreeMoveComplete /\ movePc' = "idle")
         => /\ result'.success
            /\ result'.collisions = EmptyMap
            /\ result'.error = ""
            /\ ~result'.recalibration_triggered]_vars

\* the loop body is about to handle a goal motor that backed off earlier in this
\* move and is not aborted
BackedOffMotorNext ==
    /\ movePc = "motors"
    /\ active_movements[goal_positions[moveIdx].motor].backed_off
    /\ ~active_movements[goal_positions[moveIdx].motor].abort

\* C20: after a backoff for a motor the goal-move loop keeps polling: in every
\* following iteration (a cooldown iteration, an iteration with no collision) the
\* motor is judged against its backoff position and the call goes on without an
\* error
C20_BackedOffMotorJudged ==
    [][BackedOffMotorNext => (movePc' # "idle" /\ result'.error = "")]_vars

\* the goal motor the loop body handles next
NextMotor == goal_positions[moveIdx].motor

\* the loop body marks a motor aborted in this step
AbortOf(m) ==
    /\ movePc = "motors"
    /\ m \in DOMAIN active_movements
    /\ ~active_movements[m].abort
    /\ m \in DOMAIN active_movements'
    /\ active_movements'[m].abort

\* C21: when detect_collision returns abort for one motor of a goal move, only that
\* motor is marked aborted, the abort is in the result's collisions map and nothing
\* is raised; from then on the loop passes the motor over (no detect_collision call,
\* no bus write for it) and goes on to the other motors
C21_AbortOneMotor ==
    [][ /\ \A m \in MotorSet :
              AbortOf(m) =>
                 /\ m = NextMotor
                 /\ \A x \in DOMAIN active_movements \ {m} :
                       active_movements'[x] = active_movements[x]
                 /\ m \in DOMAIN result'.collisions
                 /\ result'.collisions[m].action = "abort"
                 /\ result'.error = ""
                 /\ movePc' \in {"motors", "end", "input"}
        /\ (movePc = "motors" /\ movePc' # "motors" /\ active_movements[NextMotor].abort) =>
                 /\ UNCHANGED <<detectorVars, torque_enabled, active_movements, result>>
                 /\ events' = <<>>
                 /\ movePc' = "end"
        /\ (movePc = "motors" /\ movePc' = "motors" /\ moveIdx' # moveIdx
              /\ active_movements[NextMotor].abort) =>
                 /\ UNCHANGED <<detectorVars, torque_enabled, active_movements, result>>
                 /\ events' = <<>>
      ]_vars

\* the first motor of a two-motor move was aborted in an earlier iteration and has
\* just been passed over; the second motor is still on its way
C21_Witness ==
    /\ movePc = "motors"
    /\ moveIdx = 2
    /\ active_movements[Motors[1]].abort
    /\ ~active_movements[Motors[2]].abort
    /\ result.collisions[Motors[1]].action = "abort"
    /\ collision_state[Motors[1]].detecting = FALSE
    /\ events = <<>>

\* the loop body invokes the recalibration in this step
RecalibrationInvoked == movePc = "motors" /\ movePc' = "input"

\* C22: within one goal move the recalibration is invoked at most once, however
\* many motors and iterations report should_recalibrate, and the result's
\* recalibration_triggered is true exactly when it was invoked
C22_RecalibrationOnce ==
    [][ /\ RecalibrationInvoked => (~result.recalibration_triggered
                                      /\ result'.recalibration_triggered)
        /\ (~result.recalibration_triggered /\ result'.recalibration_triggered)
              => RecalibrationInvoked ]_vars

\* the trajectory the last apply_soft_start call returned
Trajectory == soft_start.positions
SoftStartCalled == soft_start.motor # "" /\ soft_start.current # soft_start.target
Rising == soft_start.target > soft_start.current

\* the parts of C23
TrajectoryLength == Len(Trajectory) = soft_start_steps
TrajectoryMonotonic ==
    \A i \in 1..(Len(Trajectory) - 1) :
       IF Rising THEN Trajectory[i] < Trajectory[i + 1] ELSE Trajectory[i] > Trajectory[i + 1]
TrajectoryFirstBetween ==
    IF Rising
    THEN soft_start.current < Trajectory[1] /\ Trajectory[1] < soft_start.target
    ELSE soft_start.target < Trajectory[1] /\ Trajectory[1] < soft_start.current
TrajectoryLastIsTarget == Trajectory[Len(Trajectory)] = soft_start.target

\* C23: for every soft_start_steps >= 1 and current # target, apply_soft_start
\* returns exactly soft_start_steps positions, strictly monotonic from current
\* toward target, the first strictly between the two and the last equal to target,
\* and leaves soft_start_active false
C23_SoftStartTrajectory ==
    SoftStartCalled =>
       /\ TrajectoryLength
       /\ TrajectoryMonotonic
       /\ TrajectoryFirstBetween
       /\ TrajectoryLastIsTarget
       /\ ~soft_start_active[soft_start.motor]

\* safe_move_with_collision_detection returns in this step
MoveReturns == movePc # "idle" /\ movePc' = "idle"

\* C24: every result a goal move returns (on success, on timeout, on the error
\* path) carries the positions read from the bus after the loop, with the success
\* flag, the collision events and recalibration_triggered
C24_ResultCarriesFinalPositions ==
    [][MoveReturns =>
          /\ DOMAIN result' = {"success", "collisions", "final_positions",
                               "recalibration_triggered", "error"}
          /\ DOMAIN result'.final_positions = MotorSet]_vars

\* C25: for a motor without calibration data the poll cycle skips the position
\* rule without raising (no Goal_Velocity write, no error logged, the motor's
\* snapshot is taken and the cycle goes on to the next motor or to the status),
\* and detect_collision returns the backoff position unclamped
C25_NoCalibrationSkips ==
    [][ /\ (MotorPolled /\ ~InCalibration(PolledMotor)) =>
              /\ \A i \in 1..Len(events') :
                    events'[i].key # "Goal_Velocity" /\ events'[i].op # "log"
              /\ position'[PolledMotor] \in Positions
              /\ pollPc' = IF pollIdx < Len(Motors) THEN "motors" ELSE "status"
        /\ ( /\ DetectCollisionCallFar
              /\ Call.detected
              /\ Call.action.action = "backoff"
              /\ ~DeclaresRange(Call.motor) )
            => Call.action.backoff_position =
                  Call.position + Sign(Call.position - Call.target) * backoff_distance
      ]_vars

\* the first motor, which has no calibration data, was polled near the upper end
\* of its travel and the cycle has moved on to the second; the detector has sent it
\* back to a position below the range_min it would have
C25_Witness ==
    /\ pollPc = "motors" /\ pollIdx = 2
    /\ position[Motors[1]] = 95
    /\ ~InCalibration(Motors[1])
    /\ detect_call.motor = Motors[1]
    /\ detect_call.action.action = "backoff"
    /\ detect_call.action.backoff_position = -5
    /\ detect_call.action.backoff_position < range_min[Motors[1]]

\* a polling thread is between the reads of a cycle and its status assignment
InCycle(pc) == pc \in {"motors", "status", "write"}

\* C26: whatever the sequence of start_monitoring() and stop_monitoring() calls, a
\* stop whose join timed out followed by a new start included, at most one polling
\* task is alive, so that a poll cycle completes before the next one begins
C26_OnePollingTask ==
    /\ ~(pollPc # "off" /\ oldPc # "off")
    /\ ~(InCycle(pollPc) /\ InCycle(oldPc))

\* C27: whenever emergency_stop_active is true the status is EMERGENCY_STOP, however
\* a caller's emergency_stop() interleaves with the polling thread's recomputation of
\* the status: a poll cycle already in progress never overwrites it.
C27_EmergencyStatusHeld == emergency_stop_active => status = EMERGENCY_STOP

\* the polling thread is done with the motor at pollIdx
MotorLeft == pollPc = "motors" /\ (pollIdx' # pollIdx \/ pollPc' # "motors")

\* the three rules were evaluated for the motor, in the order temperature, current,
\* position, on the values the step has stored
RulesEvaluated(m) ==
    \E tl \in TorqueLimits, ok \in BOOLEAN :
       LET stall == CheckCurrentStall(m, current'[m], high_current_start_time[m],
                                      is_stalled[m], now,
                                      LimitAfterTemperature(temperature'[m], tl, ok), ok)
       IN /\ events' = CheckTemperature(m, temperature'[m], tl, ok).events
                        \o stall.act.events \o CheckPositionLimits(m, position'[m])
          /\ high_current_start_time'[m] = stall.start
          /\ is_stalled'[m] = stall.stalled

\* the cycle goes on with the next motor, or with the status after the last one
CycleGoesOn ==
    IF pollIdx < Len(Motors)
    THEN pollPc' = "motors" /\ pollIdx' = pollIdx + 1
    ELSE pollPc' = "status"

\* C28: in a poll cycle every motor has its temperature, current and position rules
\* evaluated, in this order: a motor that triggers a temperature shutdown still has
\* its current and position rules evaluated in the same cycle, and so have the
\* motors after it, whatever the outcome of the corrective action or the callback.
C28_AllRulesEvaluated == [][ MotorLeft => (RulesEvaluated(PolledMotor) /\ CycleGoesOn) ]_vars

\* the event at place i of es is the recording of a violation of motor m
RecordedBefore(es, i, m) ==
    \E j \in 1..(i - 1) : es[j].op = "violation" /\ es[j].motor = m

\* C29: every corrective bus write of a poll cycle (reduced Torque_Limit,
\* disable_torque, damped Goal_Velocity) comes after the recording of a violation
\* for the same motor in the same cycle.
C29_RecordedBeforeWrite ==
    [][ MotorLeft =>
          \A i \in 1..Len(events') :
             IsBusWrite(events'[i]) => RecordedBefore(events', i, events'[i].motor)
      ]_vars

\* C30: a detect_collision call made for a motor while now < cooldown_until skips the
\* detection: it returns (False, cooldown) with a time_remaining above 0 and leaves
\* that motor's detecting, collision_start, backed_off, retry_count and
\* cooldown_until, every other motor's state, total_collisions and the collision
\* histories as they were, whatever the current, load and position passed.
C30_CooldownSkipsDetection ==
    [][ (DetectCollisionCall /\ now < Before.cooldown_until) =>
          /\ ~Call.detected
          /\ Call.action = Action("cooldown", None, None, FALSE, Before.cooldown_until - now)
          /\ Call.action.time_remaining > 0
          /\ UNCHANGED <<collision_state, total_collisions, collision_history,
                         last_calibration_time>>
      ]_vars

\* a resisting call for the first motor in the middle of its second cooldown, while
\* the second motor has begun to resist
C30_Witness ==
    /\ detect_call.motor = Motors[1]
    /\ detect_call.action.action = "cooldown"
    /\ detect_call.action.time_remaining \in 1..(cooldown_period - 1)
    /\ IsResisting(detect_call.current, detect_call.position, detect_call.target,
                   detect_call.load)
    /\ collision_state[Motors[1]].retry_count = 2
    /\ collision_state[Motors[1]].backed_off
    /\ collision_state[Motors[2]].detecting

\* position + sign(position - target) * backoff_distance for the call being made
RawBackoff == Call.position + Sign(Call.position - Call.target) * backoff_distance

\* C31: the backoff position of a confirmed collision is position + sign(position -
\* target) * backoff_distance, clamped to [range_min, range_max] when the motor
\* declares a range; unclamped, it lies backoff_distance farther from the target than
\* the position. The same value is stored in backoff_positions[motor] and reported
\* in the action, and cooldown_until becomes now + cooldown_period.
C31_BackoffPosition ==
    [][ (DetectCollisionCall /\ Call.detected /\ Call.action.action = "backoff") =>
          /\ Call.action.backoff_position =
                IF DeclaresRange(Call.motor)
                THEN Clip(RawBackoff, range_min[Call.motor], range_max[Call.motor])
                ELSE RawBackoff
          /\ Call.action.backoff_position = RawBackoff =>
                Abs(Call.action.backoff_position - Call.target)
                   = Abs(Call.position - Call.target) + backoff_distance
          /\ Call.motor \in DOMAIN backoff_positions'
          /\ backoff_positions'[Call.motor] = Call.action.backoff_position
          /\ After.cooldown_until = now + cooldown_period
      ]_vars

\* the first motor, which declares no range, has just been sent from 0.30 back to
\* 0.20, away from its goal of 0.50; the second motor's stored backoff position is
\* its range_min
C31_Witness ==
    /\ detect_call.motor = Motors[1]
    /\ detect_call.detected
    /\ detect_call.action.action = "backoff"
    /\ detect_call.position = 30
    /\ detect_call.action.backoff_position = 30 - backoff_distance
    /\ DOMAIN backoff_positions = MotorSet
    /\ backoff_positions[Motors[1]] = 30 - backoff_distance
    /\ backoff_positions[Motors[2]] = range_min[Motors[2]]
    /\ collision_state[Motors[1]].cooldown_until = now + cooldown_period

\* the step is a detect_collision call for motor m, outside its cooldown, that sees
\* no resistance while the motor is backed off and within 0.05 of its target
RecoveryCall(m) ==
    /\ DetectCollisionCallRecover
    /\ Call.motor = m
    /\ now >= collision_state[m].cooldown_until
    /\ ~CallResisting
    /\ collision_state[m].backed_off
    /\ Abs(Call.target - Call.position) < 5

\* C32: a motor's retry_count is reset to 0, and backed_off cleared, exactly at a
\* detect_collision call outside cooldown that sees no resistance while backed_off
\* is true and |target - position| < 0.05. No other step (an abort, the end of a
\* cooldown, trigger_recalibration) lowers retry_count or clears backed_off.
C32_RetryResetOnRecovery ==
    [][ \A m \in MotorSet :
          LET recovery == RecoveryCall(m)
          IN /\ recovery =>
                   (collision_state'[m].retry_count = 0 /\ ~collision_state'[m].backed_off)
             /\ collision_state'[m].retry_count < collision_state[m].retry_count => recovery
             /\ (collision_state[m].backed_off /\ ~collision_state'[m].backed_off) => recovery
      ]_vars

\* the first motor, after the abort that ended its third collision and a
\* recalibration, is found moving freely at 0.46 and starts again from 0
C32_Witness ==
    /\ detect_call.motor = Motors[1]
    /\ detect_call.position = 46
    /\ detect_call.current = 200
    /\ ~detect_call.detected
    /\ Motors[1] \in DOMAIN backoff_positions
    /\ collision_state[Motors[1]].retry_count = 0
    /\ ~collision_state[Motors[1]].backed_off
    /\ last_calibration_time > 0

\* C33: a collision is confirmed (retry_count and total_collisions one higher, one
\* history entry appended) only at a resisting call for a motor that has been
\* resisting at every call since collision_start, made collision_duration or more
\* after collision_start. A call without resistance leaves the motor idle, so that the
\* next resisting call starts the time anew; a resisting call made less than
\* collision_duration after collision_start returns (False, None) and changes no
\* counter.
C33_ConfirmedAfterDuration ==
    [][ DetectCollisionCallRecover =>
          LET outside == now >= Before.cooldown_until
              elapsed == now - Before.collision_start
          IN /\ Call.detected =>
                   /\ outside /\ CallResisting /\ Before.detecting
                   /\ elapsed >= collision_duration
                   /\ After.retry_count = Before.retry_count + 1
                   /\ total_collisions' = total_collisions + 1
                   /\ collision_history' =
                         [collision_history EXCEPT
                            ![Call.motor] = AppendCapped(@, Call.position, 10)]
             /\ (outside /\ ~CallResisting) =>
                   (~After.detecting /\ (Before.detecting => After.collision_start = None))
             /\ (outside /\ CallResisting /\ ~Before.detecting) =>
                   (~Call.detected /\ After.detecting /\ After.collision_start = now)
             /\ (outside /\ CallResisting /\ Before.detecting /\ elapsed < collision_duration) =>
                   /\ ~Call.detected /\ Call.action = NoneAction
                   /\ After = Before
                   /\ UNCHANGED <<total_collisions, collision_history>>
      ]_vars

\* the first motor began to resist at 0 s, was found free, began to resist again at
\* 0.4 s, was sampled every 0.2 s and has its first collision confirmed at 1.0 s
C33_Witness ==
    /\ detect_call.motor = Motors[1]
    /\ detect_call.detected
    /\ collision_state[Motors[1]].collision_start = 4
    /\ now = 10
    /\ collision_state[Motors[1]].retry_count = 1
    /\ total_collisions = 1
    /\ Len(collision_history[Motors[1]]) = 1

\* history h2 is h with the k entries it ends with appended, the oldest entries
\* dropped as far as the cap asks for
KeepsLatest(h, h2, k, cap) ==
    /\ k <= Len(h2)
    /\ h2 = LastN(h \o SubSeq(h2, Len(h2) - k + 1, Len(h2)), cap)

\* no history is longer than its cap
HistoriesCapped ==
    /\ \A m \in MotorSet : Len(temperature_history[m]) <= 100
    /\ Len(latency_history) <= 100
    /\ Len(smoothness_history) <= 100
    /\ Len(position_jitter) <= 50
    /\ \A m \in MotorSet : Len(collision_history[m]) <= 10

StopSignalled == stop_event /\ ~monitoring_active

\* C35: once stop_monitoring() has been called, and as long as no start_monitoring()
\* follows, the polling task exits in the end (bus calls returning or raising), it
\* starts a poll cycle only when its loop test found the stop event unset, and having
\* left its loop it does not come back without a start_monitoring();
\* monitoring_active is false from the moment stop_monitoring() returns, whether the
\* task has exited by then or not.
C35_PollingTaskExits ==
    /\ (StopSignalled /\ pollPc # "off") ~> (pollPc = "off" \/ ~StopSignalled)
    /\ (StopSignalled /\ oldPc # "off") ~> (oldPc = "off" \/ ~StopSignalled)
    /\ [][ /\ (pollPc = "loop" /\ pollPc' = "motors") => ~stop_event
           /\ (oldPc = "loop" /\ oldPc' = "motors") => ~stop_event
           /\ (pollPc = "off" /\ pollPc' # "off") => (monitoring_active' /\ ~stop_event')
           /\ (monitoring_active /\ StopMonitoring) => StopSignalled'
           /\ (~monitoring_active /\ StopMonitoring) => ~monitoring_active'
           /\ (~monitoring_active /\ monitoring_active') => ~stop_event'
       ]_vars

\* a join has timed out and monitoring was started again; after the stop_monitoring()
\* that followed, both polling tasks have left their loops
C35_Witness ==
    /\ StopSignalled
    /\ now >= join_timeout
    /\ pollPc = "off"
    /\ oldPc = "off"

\* a goal move in progress returns or comes to wait at the prompt of a recalibration
MoveReturnsOrWaits == (movePc # "idle") ~> (movePc \in {"idle", "input"})

\* C36: safe_move_with_collision_detection always returns in the end: no iteration
\* starts once timeout has elapsed since the call, and no step of an iteration, a
\* recalibration triggered from it included, blocks for ever.
C36_MoveAlwaysReturns ==
    /\ (movePc # "idle") ~> (movePc = "idle")
    /\ [][(movePc = "loop" /\ movePc' = "motors") => (now - start_time < timeout)]_vars

\* the step is one of the goal move and made a call of this kind
Did(op) ==
    /\ <<movePc, moveIdx>>' # <<movePc, moveIdx>>
    /\ \E i \in 1..Len(events') : events'[i].op = op

\* the step is one in which a step of the recalibration raised
RecalibrationFailed ==
    \/ Did("disable_torque_error")
    \/ Did("input_error")
    \/ Did("calibrate_error")
    \/ Did("enable_torque_error")

\* C37: a recalibration disables torque on all motors, waits for the operator,
\* calls robot.calibrate() and enables torque, in this order. A step that raises has
\* its exception swallowed (the goal move goes on with the rest of its loop body and
\* gets no error) and the steps after it are left out, so that torque is enabled
\* again only after a calibration that returned without error.
C37_RecalibrationOrder ==
    [][ /\ RecalibrationInvoked =>
            /\ events'[Len(events')].op = "disable_torque"
            /\ \A m \in MotorSet : ~torque_enabled'[m]
            /\ ~Did("calibrate") /\ ~Did("enable_torque")
        /\ (Did("calibrate") \/ Did("calibrate_error") \/ Did("input_error")) =>
            /\ movePc = "input"
            /\ \A m \in MotorSet : ~torque_enabled[m]
        /\ (Did("enable_torque") \/ Did("enable_torque_error")) =>
            /\ events'[1].op = "calibrate"
            /\ events'[2].op \in {"enable_torque", "enable_torque_error"}
        /\ Did("enable_torque") => \A m \in MotorSet : torque_enabled'[m]
        /\ (\E m \in MotorSet : ~torque_enabled[m] /\ torque_enabled'[m]) =>
            Did("calibrate")
        /\ RecalibrationFailed =>
            /\ movePc' \in {"motors", "end"}
            /\ result'.error = result.error
            /\ ~Did("enable_torque")
        /\ Did("disable_torque_error") =>
            /\ movePc = "motors"
            /\ ~Did("calibrate") /\ ~Did("input_error")
        /\ (Did("input_error") \/ Did("calibrate_error")) =>
            /\ ~Did("calibrate")
            /\ UNCHANGED torque_enabled
      ]_vars

\* a recalibration has gone through: calibrated, torque enabled again on all motors,
\* and the goal move is in the rest of its loop body
C37_Witness ==
    /\ Len(events) = 2
    /\ events[1].op = "calibrate"
    /\ events[2].op = "enable_torque"
    /\ \A m \in MotorSet : torque_enabled[m]
    /\ result.recalibration_triggered
    /\ movePc \in {"motors", "end"}

\* the target of the smoothness tier the last ten entries fall in, in 0.1 Hz
TierTarget(smoothness) ==
    LET recent == LastN(smoothness, 10)
    IN IF Sum(recent) > 8000 THEN 20 ELSE IF Sum(recent) > 6000 THEN 50 ELSE 80

\* with these histories _calculate_optimal_frequency takes its last branch
Otherwise(smoothness, latency) ==
    LET recent == LastN(smoothness, 10)
        lats == LastN(latency, 10)
        n == Len(lats)
    IN /\ Len(smoothness) >= 10
       /\ ~(Sum(recent) < 7000 /\ Sum(lats) < 20 * n)
       /\ ~(Sum(recent) > 9000 /\ Sum(lats) > 50 * n)
       /\ ~(Sum(lats) > 100 * n)

\* an update of the frequency that comes after another, both in the last branch and
\* in the same smoothness tier
SuccessiveBlend ==
    /\ smoothness_history' # smoothness_history
    /\ Otherwise(smoothness_history, latency_history)
    /\ Otherwise(smoothness_history', latency_history')
    /\ TierTarget(smoothness_history') = TierTarget(smoothness_history)

\* C38: when successive frequency updates fall in the last branch with the same
\* smoothness tier, each of them sets optimal_frequency to 0.7 times the frequency
\* computed before plus 0.3 times the tier target (to the precision of 0.1 Hz), so
\* that the frequency moves toward the target when it is not on it.
C38_BlendConverges ==
    [][SuccessiveBlend =>
         /\ Abs(10 * optimal_frequency'
                 - (7 * optimal_frequency + 3 * TierTarget(smoothness_history'))) < 10
         /\ (optimal_frequency # TierTarget(smoothness_history')) =>
                (Abs(optimal_frequency' - TierTarget(smoothness_history'))
                   < Abs(optimal_frequency - TierTarget(smoothness_history')))
      ]_vars

\* C39: safe_move_with_collision_detection reports success only for a move that ended
\* in an iteration which found every motor of goal_positions on its target; a move
\* in which a motor was aborted never reports success.
C39_NoSuccessAfterAbort ==
    [][(movePc # "idle" /\ movePc' = "idle" /\ result'.success)
         => \A i \in 1..Len(goal_positions) :
               ~active_movements[goal_positions[i].motor].abort]_vars

\* C40: a poll that finds a motor's current at or above current_spike_threshold
\* leaves the motor's high_current_start_time and is_stalled as they were and records
\* no violation: all it does is read and rewrite the motor's Torque_Limit. So a poll
\* marks a motor stalled, or disables its torque, only at a current below the spike
\* threshold, and a motor that spikes at every poll is never stalled.
C40_SpikeLeavesStallState ==
    [][ MotorPolled =>
          LET m == PolledMotor
              spike == current'[m] >= current_spike_threshold
          IN /\ spike =>
                  /\ high_current_start_time'[m] = high_current_start_time[m]
                  /\ is_stalled'[m] = is_stalled[m]
                  /\ violations' = violations
                  /\ stats' = stats
                  /\ torque_enabled' = torque_enabled
                  /\ \A i \in 1..Len(events') :
                        /\ events'[i].motor = m
                        /\ events'[i].key = "Torque_Limit"
                  /\ \E i \in 1..Len(events') : events'[i].op = "write"
             /\ ((is_stalled'[m] /\ ~is_stalled[m])
                   \/ (torque_enabled[m] /\ ~torque_enabled'[m])) => ~spike
      ]_vars

\* the first motor has drawn a high current for current_stall_duration and more, and
\* the poll that has just found it spiking has rewritten its Torque_Limit and left
\* the timer running: not stalled, torque enabled, no violation
C40_Witness ==
    /\ current[Motors[1]] >= current_spike_threshold
    /\ high_current_start_time[Motors[1]] # None
    /\ now - high_current_start_time[Motors[1]] >= current_stall_duration
    /\ ~is_stalled[Motors[1]]
    /\ torque_enabled[Motors[1]]
    /\ violations[Motors[1]] = <<>>
    /\ Len(events) > 0
    /\ events[Len(events)] = Ev("write", Motors[1], "Torque_Limit", ScaleTorque(1000, 30))
====
